---- MODULE Spec2Model ----
\* Offline-first synchronisation engine of the problem tracker: the storage
\* module (loadData, saveData, saveDataToSupabase, getIsAdminUser), the remote
\* tables with their row-level policies and foreign keys, the device-local
\* cache slot, and the App component that drives them.
EXTENDS Integers, Sequences, FiniteSets, TLC

\* ---------------------------------------------------------------- bounds
\* Per specification: edits made in the editor, remote calls that fail,
\* sign-ins, loads triggered by a change notification, and saveDataToSupabase
\* executions in flight together.
MaxEdits == 1
MaxFailures == 1
MaxSignIns == 1
MaxExecs == 1
AdminEdits == 1
AdminFailures == 1
AdminExecs == 2
SubEdits == 2
SubFailures == 1
SubLoads == 1
SubExecs == 2
UnloadEdits == 1
UnloadExecs == 2
MaxUnloads == 1
RetryEdits == 1
RetryFailures == 4
RetryExecs == 1
FaultEdits == 1
FaultFailures == 2
FaultExecs == 1
FaultUnloads == 1
PolicyEdits == 1
PolicyExecs == 1
LiveEdits == 1
LiveExecs == 1
GuardedEdits == 1
GuardedFailures == 1
GuardedExecs == 2
ReloadEdits == 1
ReloadExecs == 1
MaxEvaluations == 3
StartTime == 10000     \* Date.now() when the page is opened

\* ---------------------------------------------------------------- constants of the program
SAVE_DEBOUNCE_MS == 100
MIN_SAVE_INTERVAL_MS == 500
MAX_RETRIES == 3
BASE_DELAY == 1000

\* ---------------------------------------------------------------- data
Admin == "admin"
Users == {"admin", "u1", "u2"}
app_admins == {Admin}
NoSession == "none"

GenCatIds == {"c1", "c2"}
GenProbIds == {"q1", "q2"}
CatIds == GenCatIds \cup {"default-1"}
ProbIds == GenProbIds \cup {"p1", "p2"}

\* A note is a string, or absent (undefined in the tree, NULL in a row).
NoNote == "<null>"
NoteTexts == {"", "n"}
Notes == NoteTexts \cup {NoNote}

\* note ?? ''
NoteOrEmpty(n) == IF n = NoNote THEN "" ELSE n

\* note ?? null (undefined and null are the one absent value here)
NoteOrNull(n) == n

Problem(i, c, n) == [id |-> i, completed |-> c, note |-> n]
Category(i, ps) == [id |-> i, problems |-> ps]

\* The bundled sample catalog loadData returns when the local slot is empty.
SampleCatalog ==
    << Category("default-1", << Problem("p1", FALSE, ""), Problem("p2", FALSE, "") >>) >>

\* ---------------------------------------------------------------- sequences
Range(s) == { s[i] : i \in DOMAIN s }

RECURSIVE FlatMapProblems(_)
FlatMapProblems(cats) ==
    IF cats = << >> THEN << >>
    ELSE Head(cats).problems \o FlatMapProblems(Tail(cats))

\* utils.ts flattenProblems
flattenProblems(cats) == FlatMapProblems(cats)

CatIdsOf(cats) == { cats[i].id : i \in DOMAIN cats }
ProbIdsOf(cats) == { p.id : p \in Range(flattenProblems(cats)) }

\* All orderings of a finite set as sequences.
Perms(S) ==
    { s \in [1..Cardinality(S) -> S] : \A i, j \in 1..Cardinality(S) : i # j => s[i] # s[j] }

RemoveAt(s, i) == SubSeq(s, 1, i - 1) \o SubSeq(s, i + 1, Len(s))
InsertAt(s, i, x) == SubSeq(s, 1, i - 1) \o << x >> \o SubSeq(s, i, Len(s))

\* ---------------------------------------------------------------- state
VARIABLES
    session,          \* the auth session on this device: a user id or NoSession
    categoriesTbl,    \* remote table categories: rows [id, order_index, user_id]
    problemsTbl,      \* remote table problems: rows [id, category_id, completed, note, user_id]
    progressTbl,      \* remote table user_problem_progress: rows [user_id, problem_id, completed, note]
    localSlot,        \* localStorage[STORAGE_KEY]: << tree >>, or NoSlot when never written
    categories,       \* App state: the tree in memory
    loading,          \* App state: the first load has not finished
    isAuthenticated,  \* App state
    isAdmin,          \* App state
    adminChecks,      \* getIsAdminUser() calls of the App in flight: the user ids they ask about
    connectionStatus, \* App state: the connectivity indicator
    appVariant,       \* which App runs: "plain" (src/src/App.tsx) or "guarded" (the one with isSaving)
    isSaving,         \* App state of the guarded variant
    lastSavedState,   \* App state of the guarded variant: the hash of the tree last saved, or NoHash
    globalClient,     \* globalThis.__supabaseClient: a client, or NoClient
    supabase,         \* storage.ts: the client the latest evaluation of the module exports
    evaluations,      \* how often the storage module has been evaluated in this process
    clientsCreated,   \* how often createClient has been called in this process
    saveTimeout,      \* the pending debounce timer << [cats, due] >>, or NoTimer
    lastSaveTime,     \* storage.ts lastSaveTime
    retryTimers,      \* pending retry timers: a sequence of [cats, retryCount, due]
    execs,            \* saveDataToSupabase executions in flight: a sequence of records
    notify,           \* a remote change notification has not been delivered yet
    budget,           \* what is left of each bound: edits, failures, signIns, loads, unloads; the cap execs
    event             \* the step just taken (observer, read by the properties only)

vars == << session, categoriesTbl, problemsTbl, progressTbl, localSlot, categories,
           loading, isAuthenticated, isAdmin, adminChecks, connectionStatus, appVariant,
           isSaving, lastSavedState, globalClient, supabase, evaluations, clientsCreated,
           saveTimeout,
           lastSaveTime, retryTimers, execs, notify, budget, event >>

\* The slot holds at most one item and the timer handle at most one live timer.
NoSlot == << >>

\* Local storage in a state the program did not leave it in: the item is not
\* JSON (JSON.parse throws), or the storage is unavailable (getItem and setItem throw).
\* (Marked by an item with a reserved id, which no tree of the program has.)
Corrupt == << << Category("<corrupt>", << >>) >> >>
Unavailable == << << Category("<unavailable>", << >>) >> >>
Unreadable == { Corrupt, Unavailable }

\* Date.now(). Instants are kept relative to the present: when d milliseconds
\* pass (Tick), every stored instant moves d milliseconds into the past.
now == StartTime
NoTimer == << >>

\* ---------------------------------------------------------------- remote store
\* Row-level policies: a categories/problems row is readable by its owner and,
\* for any authenticated reader, when its owner is in app_admins.
CanRead(who, row) ==
    /\ who # NoSession
    /\ \/ row.user_id = who
       \/ row.user_id \in app_admins

\* The write policies without the comparison with the row's owner.
CanWriteAnySession(who, row) == who # NoSession

\* INSERT/UPDATE/DELETE policies: auth.uid() = user_id.
CanWrite(who, row) == who # NoSession /\ row.user_id = who

ProgressKey(r) == << r.user_id, r.problem_id >>

\* ON CONFLICT DO UPDATE cannot affect a row a second time: the keys of one
\* payload are distinct.
DistinctIds(rows) ==
    \A i, j \in DOMAIN rows : i # j => rows[i].id # rows[j].id

DistinctProgressKeys(rows) ==
    \A i, j \in DOMAIN rows : i # j => ProgressKey(rows[i]) # ProgressKey(rows[j])

\* upsert(payload, { onConflict: 'id' }) on categories, issued by `who`.
UpsertCategoriesOk(tbl, payload, who) ==
    /\ DistinctIds(payload)
    /\ \A i \in DOMAIN payload :
          /\ CanWrite(who, payload[i])
          /\ \A r \in tbl : r.id = payload[i].id => CanWrite(who, r)

UpsertRows(tbl, payload) ==
    { r \in tbl : r.id \notin { payload[i].id : i \in DOMAIN payload } } \cup Range(payload)

\* upsert on problems: the same policies, and category_id references categories(id).
UpsertProblemsOk(tbl, cats, payload, who) ==
    /\ DistinctIds(payload)
    /\ \A i \in DOMAIN payload :
          /\ CanWrite(who, payload[i])
          /\ payload[i].category_id \in { c.id : c \in cats }
          /\ \A r \in tbl : r.id = payload[i].id => CanWrite(who, r)

\* delete().in('id', ids).eq('user_id', uid): the rows the policy lets `who` delete.
DeletedRows(tbl, ids, uid, who) ==
    { r \in tbl : r.id \in ids /\ r.user_id = uid /\ CanWrite(who, r) }

\* ON DELETE CASCADE from categories to problems and from problems to progress rows.
CascadeProblems(probs, cats) == { p \in probs : p.category_id \in { c.id : c \in cats } }
CascadeProgress(prog, probs) == { g \in prog : g.problem_id \in { p.id : p \in probs } }

\* upsert(payload, { onConflict: 'user_id,problem_id' }) on user_problem_progress:
\* policy upp_user_crud, and problem_id references problems(id).
UpsertProgressOk(probs, payload, who) ==
    /\ DistinctProgressKeys(payload)
    /\ \A i \in DOMAIN payload :
          /\ who # NoSession /\ payload[i].user_id = who
          /\ payload[i].problem_id \in { p.id : p \in probs }

UpsertProgressRows(tbl, payload) ==
    { g \in tbl : ProgressKey(g) \notin { ProgressKey(payload[i]) : i \in DOMAIN payload } }
        \cup Range(payload)

\* .order('order_index', { ascending: true }): rows with equal order_index come in any order.
OrderedByIndex(rows) ==
    { s \in Perms(rows) : \A i, j \in DOMAIN s : i < j => s[i].order_index <= s[j].order_index }


\* ---------------------------------------------------------------- loadData
\* The tree loadData builds from fetched rows: categories in order_index order,
\* each with the fetched problems of that category (the problems query has no
\* ORDER BY, so they come in any order), each problem row projected by the function view.
TreesOf(catRows, probRows, view) ==
    LET cids == { c.id : c \in catRows }
        ProbSeqs(cid) ==
            { [i \in DOMAIN s |-> view[s[i]]] :
                s \in Perms({ p \in probRows : p.category_id = cid }) }
        Orders ==
            { po \in [cids -> UNION { ProbSeqs(c) : c \in cids }] :
                \A c \in cids : po[c] \in ProbSeqs(c) }
    IN  { [i \in DOMAIN cs |-> Category(cs[i].id, po[cs[i].id])] :
            cs \in OrderedByIndex(catRows), po \in Orders }

\* Admin branch: completed and note come from the problems row.
AdminView(prob) == Problem(prob.id, prob.completed, prob.note)

\* OverlayView with the overlay lookup lost: every problem gets the defaults.
OverlayViewDefaultsOnly(progressData, prob) == Problem(prob.id, FALSE, "")

\* Sub-user branch: completed and note come from the caller's progress row, if any.
OverlayView(progressData, prob) ==
    IF \E g \in progressData : g.problem_id = prob.id
    THEN LET overlay == CHOOSE g \in progressData : g.problem_id = prob.id
         IN  Problem(prob.id, overlay.completed, NoteOrEmpty(overlay.note))
    ELSE Problem(prob.id, FALSE, "")

\* getIsAdminUser that takes any signed-in user for an admin.
getIsAdminUserAnySession(who, ok) == who # NoSession

\* getIsAdminUser that takes a failed lookup for a yes.
getIsAdminUserFailOpen(who, ok) == who # NoSession /\ (~ok \/ who \in app_admins)

\* The admin allow-list lookup of getIsAdminUser for the current session; a
\* failed lookup (ok = FALSE) or a missing user id yields FALSE.
getIsAdminUser(who, ok) == who # NoSession /\ ok /\ who \in app_admins

\* The trees the remote branches of loadData can return for the user `who`.
LoadSubUserTrees(who) ==
    LET progressData ==
            { g \in progressTbl : g.user_id = who /\ (g.user_id = who \/ who \in app_admins) }
        problemsData == { p \in problemsTbl : CanRead(who, p) }
    IN  TreesOf({ c \in categoriesTbl : CanRead(who, c) },
                problemsData,
                [p \in problemsData |-> OverlayView(progressData, p)])

\* The admin branch with the overlay merge of the sub-user branch.
LoadAdminTreesMerged(who) == LoadSubUserTrees(who)

LoadAdminTrees(who) ==
    LET problemsData == { p \in problemsTbl : p.user_id = who /\ CanRead(who, p) }
    IN  TreesOf({ c \in categoriesTbl : c.user_id = who /\ CanRead(who, c) },
                problemsData,
                [p \in problemsData |-> AdminView(p)])

\* The local fallback that never reads the slot.
LoadLocalSampleOnly(slot) == SampleCatalog

\* The local fallback without the sample: an empty slot gives the empty tree.
LoadLocalKeepsEmpty(slot) ==
    IF slot \in Unreadable \/ slot = NoSlot THEN << >> ELSE slot[1]

\* The local fallback of loadData: the slot's tree, or the sample when it is
\* empty; the catch block returns [] when the slot cannot be read.
LoadLocal(slot) ==
    IF slot \in Unreadable THEN << >>
    ELSE LET localData == IF slot = NoSlot THEN << >> ELSE slot[1]
         IN  IF Len(localData) = 0 THEN SampleCatalog ELSE localData

\* The return statement the local fallback leaves by.
LocalPath(slot) ==
    IF slot \in Unreadable THEN "empty"
    ELSE IF slot # NoSlot /\ Len(slot[1]) # 0 THEN "local" ELSE "sample"

\* loadData without the try block around the local fallback: an unreadable slot
\* makes it throw, so that it has no result.
loadDataUnguarded(who, slot, fetchOk, adminOk) ==
    IF who # NoSession /\ fetchOk
    THEN IF getIsAdminUser(who, adminOk)
         THEN { [path |-> "admin", tree |-> t] : t \in LoadAdminTrees(who) }
         ELSE { [path |-> "sub", tree |-> t] : t \in LoadSubUserTrees(who) }
    ELSE IF slot \in Unreadable THEN { }
         ELSE { [path |-> LocalPath(slot), tree |-> LoadLocal(slot)] }

\* loadData(): the results [path, tree] it can return. fetchOk: the row fetches
\* succeed; adminOk: the allow-list lookup succeeds.
loadData(who, slot, fetchOk, adminOk) ==
    IF who # NoSession /\ fetchOk
    THEN IF getIsAdminUser(who, adminOk)
         THEN { [path |-> "admin", tree |-> t] : t \in LoadAdminTrees(who) }
         ELSE { [path |-> "sub", tree |-> t] : t \in LoadSubUserTrees(who) }
    ELSE { [path |-> LocalPath(slot), tree |-> LoadLocal(slot)] }


\* ---------------------------------------------------------------- observer
\* settled: how the promise of a saveDataToSupabase execution settled in this
\* step: "" when no execution ended. An execution that reaches the end of its
\* try block (note "done") resolves.
Ev(op, who, cats, note) ==
    [op |-> op, note |-> note, settled |-> IF note = "done" THEN "resolved" ELSE ""]

\* ---------------------------------------------------------------- saveDataToSupabase
Pow2(n) == IF n = 0 THEN 1 ELSE IF n = 1 THEN 2 ELSE IF n = 2 THEN 4 ELSE 8

\* The delay without the backoff factor.
RetryDelayFixed(retryCount) == BASE_DELAY

\* BASE_DELAY * Math.pow(2, retryCount)
RetryDelay(retryCount) == BASE_DELAY * Pow2(retryCount)

\* A fresh execution of saveDataToSupabase(categories, retryCount), suspended at
\* its first await. caller: the call site, in saveData ("saveData"), in the
\* debounce timer's callback ("saveTimeout") or in a retry timer's ("retry"). issuer: the session
\* under which the snapshot was handed to saveData (kept for the record only).
NewExec(cats, retryCount, caller, issuer) ==
    [cats |-> cats, retryCount |-> retryCount, caller |-> caller, issuer |-> issuer,
     pc |-> "getSession", uid |-> NoSession,
     existingCategories |-> {}, existingProblems |-> {}]

categoriesPayload(cats, uid) ==
    [i \in DOMAIN cats |-> [id |-> cats[i].id, order_index |-> i - 1, user_id |-> uid]]

RECURSIVE problemsPayload(_, _)
problemsPayload(cats, uid) ==
    IF cats = << >> THEN << >>
    ELSE [i \in DOMAIN Head(cats).problems |->
             [id |-> Head(cats).problems[i].id,
              category_id |-> Head(cats).id,
              completed |-> Head(cats).problems[i].completed,
              note |-> Head(cats).problems[i].note,
              user_id |-> uid]]
         \o problemsPayload(Tail(cats), uid)

\* A payload with rows only for the problems that differ from the defaults.
progressPayloadChangedOnly(cats, uid) ==
    LET Changed(p) == p.completed \/ p.note \notin { "", NoNote }
        ps == SelectSeq(flattenProblems(cats), Changed)
    IN  [i \in DOMAIN ps |->
            [user_id |-> uid, problem_id |-> ps[i].id,
             completed |-> ps[i].completed, note |-> NoteOrNull(ps[i].note)]]

progressPayload(cats, uid) ==
    [i \in DOMAIN flattenProblems(cats) |->
        [user_id |-> uid,
         problem_id |-> flattenProblems(cats)[i].id,
         completed |-> flattenProblems(cats)[i].completed,
         note |-> NoteOrNull(flattenProblems(cats)[i].note)]]

categoriesToDelete(e) == e.existingCategories \ CatIdsOf(e.cats)

\* problemsToDelete without the filter on the desired ids.
problemsToDeleteUnfiltered(e) == e.existingProblems

problemsToDelete(e) == e.existingProblems \ ProbIdsOf(e.cats)

\* globalThis.__supabaseClient is not set.
NoClient == 0

\* const currentStateHash = JSON.stringify(categories); useState<string>('')
currentStateHash(cats) == << cats >>
NoHash == << >>

\* The handlers of the saveData promise in the guarded variant without
\* setIsSaving(false).
saveThenKeepsSaving(e, settled) ==
    /\ UNCHANGED isSaving
    /\ lastSavedState' = IF appVariant = "guarded" /\ e.caller = "saveData" /\ settled = "resolved"
                         THEN currentStateHash(e.cats) ELSE lastSavedState

\* The save effect of the guarded variant has work to do: the render just
\* committed has loading and isSaving false and a tree whose hash is not
\* lastSavedState. React runs the effect of a committed render before it renders
\* the next state update, so no setState of a handler is applied in between.
effectPending ==
    /\ appVariant = "guarded"
    /\ ~loading /\ ~isSaving
    /\ currentStateHash(categories) # lastSavedState

\* The handlers the guarded variant attaches to the promise of a saveData call,
\* run when the execution started in that call ends: .then sets isSaving to
\* false and lastSavedState to the hash of the tree handed over, .catch sets
\* isSaving to false. The plain App attaches none of them.
saveThen(e, settled) ==
    IF appVariant = "guarded" /\ e.caller = "saveData"
    THEN /\ ~effectPending
         /\ isSaving' = FALSE
         /\ lastSavedState' = IF settled = "resolved" THEN currentStateHash(e.cats)
                              ELSE lastSavedState
    ELSE UNCHANGED << isSaving, lastSavedState >>

SetExec(i, e) == execs' = [execs EXCEPT ![i] = e] /\ UNCHANGED << isSaving, lastSavedState >>
DropExec(i) == execs' = RemoveAt(execs, i) /\ saveThen(execs[i], "resolved")

\* The catch block: a resource-class error with retries left schedules a retry
\* timer; anything else clears lastSaveTime.
\* The retry test without the test of the error's message.
RetryableAnyKind(kind) == TRUE

Retryable(kind) == kind = "resource"

\* saveDataToSupabase whose error reaches the caller whatever the catch block does.
CatchSettlesUncaught(retryCount, kind) == "rejected"

\* The catch block with a throw at its end in place of the reset of lastSaveTime.
CatchSettlesRethrowing(retryCount, kind) ==
    IF retryCount < MAX_RETRIES /\ Retryable(kind) THEN "resolved" ELSE "rejected"

\* How the catch block is left: by the return after setTimeout, or by falling
\* off its end after lastSaveTime = 0; the error is not thrown again.
CatchSettles(retryCount, kind) == "resolved"

\* The rejection handler of the save effect, saveData(categories).catch(...):
\* a rejection whose message names ERR_INSUFFICIENT_RESOURCES sets the
\* indicator to 'error'. Only the promise of an execution started in the
\* saveData call itself is the one the effect waits for. The handler's timer
\* (back to 'connected' after 5000 ms) starts in the state 'error' only.
saveEffectCatch(status, caller, settled, kind) ==
    IF caller = "saveData" /\ settled = "rejected" /\ kind = "resource"
    THEN "error" ELSE status

\* The step of an execution that ends in the catch block.
EvCatch(op, e, note, kind) ==
    [op |-> op, note |-> note, settled |-> CatchSettles(e.retryCount, kind)]

\* The catch block without the reset of lastSaveTime.
CatchErrorKeepsTime(i, kind) ==
    LET e == execs[i] IN
    /\ execs' = RemoveAt(execs, i)
    /\ saveThen(e, CatchSettles(e.retryCount, kind))
    /\ connectionStatus' = saveEffectCatch(connectionStatus, e.caller,
                                           CatchSettles(e.retryCount, kind), kind)
    /\ UNCHANGED lastSaveTime
    /\ IF e.retryCount < MAX_RETRIES /\ Retryable(kind)
       THEN retryTimers' = Append(retryTimers,
                   [cats |-> e.cats, issuer |-> e.issuer, retryCount |-> e.retryCount + 1,
                    due |-> now + RetryDelay(e.retryCount)])
       ELSE UNCHANGED retryTimers

CatchError(i, kind) ==
    LET e == execs[i] IN
    /\ execs' = RemoveAt(execs, i)
    /\ saveThen(e, CatchSettles(e.retryCount, kind))
    /\ connectionStatus' = saveEffectCatch(connectionStatus, e.caller,
                                           CatchSettles(e.retryCount, kind), kind)
    /\ IF e.retryCount < MAX_RETRIES /\ Retryable(kind)
       THEN /\ retryTimers' = Append(retryTimers,
                   [cats |-> e.cats, issuer |-> e.issuer, retryCount |-> e.retryCount + 1,
                    due |-> now + RetryDelay(e.retryCount)])
            /\ UNCHANGED lastSaveTime
       ELSE /\ lastSaveTime' = 0
            /\ UNCHANGED retryTimers

appState == << categories, loading, isAuthenticated, isAdmin, adminChecks >>
guardVars == << appVariant, isSaving, lastSavedState >>
moduleVars == << globalClient, supabase, evaluations, clientsCreated >>
appVars == << appState, connectionStatus, guardVars, moduleVars >>
schedVars == << saveTimeout, lastSaveTime, retryTimers, execs >>
remoteVars == << categoriesTbl, problemsTbl, progressTbl >>

\* ExecGetSession with lastSaveTime set before the session is looked at.
ExecGetSessionStamping(i, adminOk) ==
    LET e == execs[i] IN
    /\ e.pc = "getSession"
    /\ adminOk \/ (session \in app_admins /\ budget.failures > 0)
    /\ budget' = IF adminOk THEN budget ELSE [budget EXCEPT !.failures = @ - 1]
    /\ lastSaveTime' = now
    /\ IF session # NoSession
       THEN /\ SetExec(i, [e EXCEPT !.uid = session,
                                    !.pc = IF getIsAdminUser(session, adminOk)
                                           THEN "selExisting" ELSE "upProgress"])
            /\ event' = Ev("getSession", session, e.cats, "")
       ELSE /\ DropExec(i)
            /\ event' = Ev("getSession", NoSession, e.cats, "done")
    /\ UNCHANGED << session, remoteVars, localSlot, appState, connectionStatus, appVariant, moduleVars, saveTimeout, retryTimers, notify >>

\* await supabase.auth.getSession() and, with a session, await getIsAdminUser()
\* resolve: lastSaveTime is set, the branch is chosen and its first call is made.
\* The allow-list lookup may fail, which yields false.
ExecGetSession(i, adminOk) ==
    LET e == execs[i] IN
    /\ e.pc = "getSession"
    /\ adminOk \/ (session \in app_admins /\ budget.failures > 0)
    /\ budget' = IF adminOk THEN budget ELSE [budget EXCEPT !.failures = @ - 1]
    /\ IF session # NoSession
       THEN /\ lastSaveTime' = now
            /\ SetExec(i, [e EXCEPT !.uid = session,
                                    !.pc = IF getIsAdminUser(session, adminOk)
                                           THEN "selExisting" ELSE "upProgress"])
            /\ event' = Ev("getSession", session, e.cats, "")
       ELSE /\ DropExec(i)
            /\ UNCHANGED lastSaveTime
            /\ event' = Ev("getSession", NoSession, e.cats, "done")
    /\ UNCHANGED << session, remoteVars, localSlot, appState, connectionStatus, appVariant, moduleVars, saveTimeout, retryTimers, notify >>

\* The two select('id').eq('user_id', currentUserId) calls, on categories and on
\* problems, resolve.
ExecSelectExisting(i) ==
    LET e == execs[i] IN
    /\ e.pc = "selExisting"
    /\ SetExec(i, [e EXCEPT !.pc = "upCats",
                            !.existingCategories =
                                { c.id : c \in { r \in categoriesTbl : r.user_id = e.uid /\ CanRead(session, r) } },
                            !.existingProblems =
                                { p.id : p \in { r \in problemsTbl : r.user_id = e.uid /\ CanRead(session, r) } }])
    /\ event' = Ev("selExisting", e.uid, e.cats, "")
    /\ UNCHANGED << session, remoteVars, localSlot, appState, connectionStatus, appVariant, moduleVars, saveTimeout, lastSaveTime, retryTimers, notify, budget >>

\* The deletes in the order categories, problems.
AfterUpsertProblemsCategoriesFirst(e) ==
    IF categoriesToDelete(e) # {} THEN "delCats"
    ELSE IF problemsToDelete(e) # {} THEN "delProbs"
    ELSE "done"

\* What follows the problems upsert: the deletes that have rows to delete, in
\* the order problems, categories; the execution is over when neither has.
AfterUpsertProblems(e) ==
    IF problemsToDelete(e) # {} THEN "delProbs"
    ELSE IF categoriesToDelete(e) # {} THEN "delCats"
    ELSE "done"

AfterDeleteProblems(e) == IF categoriesToDelete(e) # {} THEN "delCats" ELSE "done"

\* The execution moves to its next await, or is over.
Advance(i, pc) ==
    IF pc = "done" THEN DropExec(i) ELSE SetExec(i, [execs[i] EXCEPT !.pc = pc])

DoneNote(pc) == IF pc = "done" THEN "done" ELSE ""

\* upsert(categoriesPayload, { onConflict: 'id' }) resolves.
ExecUpsertCategories(i) ==
    LET e == execs[i]
        payload == categoriesPayload(e.cats, e.uid)
    IN
    /\ e.pc = "upCats"
    /\ IF UpsertCategoriesOk(categoriesTbl, payload, session)
       THEN /\ categoriesTbl' = UpsertRows(categoriesTbl, payload)
            /\ notify' = TRUE
            /\ SetExec(i, [e EXCEPT !.pc = "upProbs"])
            /\ event' = Ev("upCats", e.uid, e.cats, "")
            /\ UNCHANGED << lastSaveTime, retryTimers, connectionStatus >>
       ELSE /\ CatchError(i, "other")
            /\ event' = EvCatch("upCats", e, "rejected", "other")
            /\ UNCHANGED << categoriesTbl, notify >>
    /\ UNCHANGED << session, problemsTbl, progressTbl, localSlot, appState, appVariant, moduleVars, saveTimeout, budget >>

\* upsert(problemsPayload, { onConflict: 'id' }) resolves.
ExecUpsertProblems(i) ==
    LET e == execs[i]
        payload == problemsPayload(e.cats, e.uid)
    IN
    /\ e.pc = "upProbs"
    /\ IF UpsertProblemsOk(problemsTbl, categoriesTbl, payload, session)
       THEN /\ problemsTbl' = UpsertRows(problemsTbl, payload)
            /\ notify' = TRUE
            /\ Advance(i, AfterUpsertProblems(e))
            /\ event' = Ev("upProbs", e.uid, e.cats, DoneNote(AfterUpsertProblems(e)))
            /\ UNCHANGED << lastSaveTime, retryTimers, connectionStatus >>
       ELSE /\ CatchError(i, "other")
            /\ event' = EvCatch("upProbs", e, "rejected", "other")
            /\ UNCHANGED << problemsTbl, notify >>
    /\ UNCHANGED << session, categoriesTbl, progressTbl, localSlot, appState, appVariant, moduleVars, saveTimeout, budget >>

\* delete().in('id', problemsToDelete).eq('user_id', currentUserId) on problems resolves.
ExecDeleteProblems(i) ==
    LET e == execs[i]
        gone == DeletedRows(problemsTbl, problemsToDelete(e), e.uid, session)
    IN
    /\ e.pc = "delProbs"
    /\ problemsTbl' = problemsTbl \ gone
    /\ notify' = (notify \/ gone # {})
    /\ progressTbl' = progressTbl \ CascadeProgress(progressTbl, gone)
    /\ Advance(i, AfterDeleteProblems(e))
    /\ event' = Ev("delProbs", e.uid, e.cats, DoneNote(AfterDeleteProblems(e)))
    /\ UNCHANGED << session, categoriesTbl, localSlot, appState, connectionStatus, appVariant, moduleVars, saveTimeout, lastSaveTime, retryTimers, budget >>

\* delete().in('id', categoriesToDelete).eq('user_id', currentUserId) on categories resolves.
ExecDeleteCategories(i) ==
    LET e == execs[i]
        gone == DeletedRows(categoriesTbl, categoriesToDelete(e), e.uid, session)
        goneProblems == CascadeProblems(problemsTbl, gone)
    IN
    /\ e.pc = "delCats"
    /\ categoriesTbl' = categoriesTbl \ gone
    /\ notify' = (notify \/ gone # {})
    /\ problemsTbl' = problemsTbl \ goneProblems
    /\ progressTbl' = progressTbl \ CascadeProgress(progressTbl, goneProblems)
    /\ DropExec(i)
    /\ event' = Ev("delCats", e.uid, e.cats, "done")
    /\ UNCHANGED << session, localSlot, appState, connectionStatus, appVariant, moduleVars, saveTimeout, lastSaveTime, retryTimers, budget >>

\* upsert(progressPayload, { onConflict: 'user_id,problem_id' }) resolves.
ExecUpsertProgress(i) ==
    LET e == execs[i]
        payload == progressPayload(e.cats, e.uid)
    IN
    /\ e.pc = "upProgress"
    /\ IF UpsertProgressOk(problemsTbl, payload, session)
       THEN /\ progressTbl' = UpsertProgressRows(progressTbl, payload)
            /\ notify' = TRUE
            /\ DropExec(i)
            /\ event' = Ev("upProgress", e.uid, e.cats, "done")
            /\ UNCHANGED << lastSaveTime, retryTimers, connectionStatus >>
       ELSE /\ CatchError(i, "other")
            /\ event' = EvCatch("upProgress", e, "rejected", "other")
            /\ UNCHANGED << progressTbl, notify >>
    /\ UNCHANGED << session, categoriesTbl, problemsTbl, localSlot, appState, appVariant, moduleVars, saveTimeout, budget >>

\* A remote call of the execution fails (network, rate limit, server): the
\* call has no effect and the catch block runs.
RemoteCalls == { "selExisting", "upCats", "upProbs", "delProbs", "delCats", "upProgress" }
ErrorKinds == { "resource", "other" }

ExecFail(i, kind) ==
    LET e == execs[i] IN
    /\ e.pc \in RemoteCalls
    /\ budget.failures > 0
    /\ budget' = [budget EXCEPT !.failures = @ - 1]
    /\ CatchError(i, kind)
    /\ event' = EvCatch(e.pc, e, kind, kind)
    /\ UNCHANGED << session, remoteVars, localSlot, appState, appVariant, moduleVars, saveTimeout, notify >>

\* supabase.auth.getSession() of the execution throws: the catch block runs.
ExecSessionFail(i, kind) ==
    LET e == execs[i] IN
    /\ e.pc = "getSession"
    /\ budget.failures > 0
    /\ budget' = [budget EXCEPT !.failures = @ - 1]
    /\ CatchError(i, kind)
    /\ event' = EvCatch("getSession", e, kind, kind)
    /\ UNCHANGED << session, remoteVars, localSlot, appState, appVariant, moduleVars, saveTimeout, notify >>


\* ---------------------------------------------------------------- saveData
\* The interval test without the forceImmediate early return.
DebouncedDespiteForce(forceImmediate, t, last) == t - last < MIN_SAVE_INTERVAL_MS

\* now - lastSaveTime < MIN_SAVE_INTERVAL_MS, unless forceImmediate.
Debounced(forceImmediate, t, last) == ~forceImmediate /\ t - last < MIN_SAVE_INTERVAL_MS

\* A setItem that leaves the slot empty.
StoredItemNothing(cats) == << >>

\* What localStorage.setItem(STORAGE_KEY, JSON.stringify(categories)) leaves in the slot.
StoredItem(cats) == << cats >>

\* saveData without its write to local storage.
WriteSlotNever(slot, cats) == slot

\* The try block around setItem: a setItem that throws leaves the slot as it is.
WriteSlot(slot, cats) == IF slot = Unavailable THEN slot ELSE StoredItem(cats)

\* saveData that starts saveDataToSupabase on every call, next to the timer it sets.
saveDataNoDebounce(who, cats, forceImmediate) ==
    /\ localSlot' = WriteSlot(localSlot, cats)
    /\ Len(execs) < budget.execs
    /\ saveTimeout' = IF Debounced(forceImmediate, now, lastSaveTime)
                      THEN << [cats |-> cats, issuer |-> who, due |-> now + SAVE_DEBOUNCE_MS] >>
                      ELSE NoTimer
    /\ execs' = Append(execs, NewExec(cats, 0, "saveData", who))
    /\ UNCHANGED << lastSaveTime, retryTimers >>

\* saveData that leaves the timer of an earlier call pending.
clearTimeoutNever(timers) == timers

\* if (saveTimeout) clearTimeout(saveTimeout): no timer of an earlier call is
\* pending any more.
clearTimeout(timers) == NoTimer

\* saveData(categories, forceImmediate): write the local slot, cancel the pending
\* debounce timer, then either start saveDataToSupabase or set a new timer.
\* who: the session under which the call is made, recorded with the snapshot.
saveData(who, cats, forceImmediate) ==
    /\ localSlot' = WriteSlot(localSlot, cats)
    /\ IF Debounced(forceImmediate, now, lastSaveTime)
       THEN /\ saveTimeout' = Append(clearTimeout(saveTimeout),
                                     [cats |-> cats, issuer |-> who, due |-> now + SAVE_DEBOUNCE_MS])
            /\ UNCHANGED execs
       ELSE /\ Len(execs) < budget.execs
            /\ saveTimeout' = clearTimeout(saveTimeout)
            /\ execs' = Append(execs, NewExec(cats, 0, "saveData", who))
    /\ UNCHANGED << lastSaveTime, retryTimers >>

\* The debounce timer fires: saveDataToSupabase(categories).
FireSaveTimeout ==
    /\ saveTimeout # NoTimer
    /\ saveTimeout[1].due <= now
    /\ Len(execs) < budget.execs
    /\ execs' = Append(execs, NewExec(saveTimeout[1].cats, 0, "saveTimeout", saveTimeout[1].issuer))
    /\ saveTimeout' = NoTimer
    /\ event' = Ev("fireDebounce", session, saveTimeout[1].cats, "")
    /\ UNCHANGED << session, remoteVars, localSlot, appVars, lastSaveTime, retryTimers, notify, budget >>

\* A retry timer fires: saveDataToSupabase(categories, retryCount + 1).
FireRetry(k) ==
    /\ k \in DOMAIN retryTimers
    /\ retryTimers[k].due <= now
    /\ Len(execs) < budget.execs
    /\ execs' = Append(execs, NewExec(retryTimers[k].cats, retryTimers[k].retryCount, "retry", retryTimers[k].issuer))
    /\ retryTimers' = RemoveAt(retryTimers, k)
    /\ event' = Ev("fireRetry", session, retryTimers[k].cats, "")
    /\ UNCHANGED << session, remoteVars, localSlot, appVars, saveTimeout, lastSaveTime, notify, budget >>

\* Time passes. A timer fires no later than the instant it is due.
TimerDues ==
    { retryTimers[k].due : k \in DOMAIN retryTimers }
        \cup { saveTimeout[k].due : k \in DOMAIN saveTimeout }

\* The instants at which something becomes possible: a timer falls due, or the
\* minimum save interval since lastSaveTime has elapsed.
TickSteps ==
    { d - now : d \in TimerDues } \cup { lastSaveTime + MIN_SAVE_INTERVAL_MS - now }

\* A stored instant after d more milliseconds; one that is a full save interval
\* or more in the past is as good as the 0 lastSaveTime starts from.
Earlier(t, d) == IF t - d <= now - MIN_SAVE_INTERVAL_MS THEN 0 ELSE t - d

Tick(d) ==
    /\ d > 0
    /\ \A due \in TimerDues : now + d <= due
    /\ lastSaveTime' = Earlier(lastSaveTime, d)
    /\ saveTimeout' = [k \in DOMAIN saveTimeout |-> [saveTimeout[k] EXCEPT !.due = @ - d]]
    /\ retryTimers' = [k \in DOMAIN retryTimers |-> [retryTimers[k] EXCEPT !.due = @ - d]]
    /\ event' = Ev("tick", session, << >>, "")
    /\ UNCHANGED << session, remoteVars, localSlot, appVars, execs, notify, budget >>

\* ---------------------------------------------------------------- App
\* A loadData() call of the App with its continuation: setCategories(result),
\* after which the save effect runs saveData(categories). A failing fetch or a
\* failing allow-list lookup uses up one failure.
LoadOutcomes == { "ok", "fetchFails", "adminCheckFails" }

\* The save effect of the plain App runs with the render that follows
\* setCategories and calls saveData(categories); that of the guarded variant
\* is the step SaveEffect.
effectAfterSetCategories(who, cats) ==
    IF appVariant = "plain" THEN saveData(who, cats, FALSE)
    ELSE UNCHANGED << localSlot, schedVars >>

LoadAndSave(who, outcome) ==
    /\ outcome = "ok" \/ (who # NoSession /\ budget.failures > 0)
    /\ outcome = "adminCheckFails" => who \in app_admins
    /\ \E r \in loadData(who, localSlot, outcome # "fetchFails", outcome # "adminCheckFails") :
          /\ categories' = r.tree
          /\ effectAfterSetCategories(who, r.tree)
          /\ event' = Ev("load", who, r.tree, r.path)

SpendFailure(outcome) == IF outcome = "ok" THEN 0 ELSE 1

\* The mount effect: the auth listener reports the persisted session, the
\* first loadData() resolves, loading becomes false.
Mount(outcome) ==
    /\ supabase # NoClient
    /\ loading
    /\ loading' = FALSE
    /\ isAuthenticated' = (session # NoSession)
    /\ adminChecks' = IF session # NoSession THEN adminChecks \cup { session } ELSE adminChecks
    /\ LoadAndSave(session, outcome)
    /\ budget' = [budget EXCEPT !.failures = @ - SpendFailure(outcome)]
    /\ UNCHANGED << session, remoteVars, isAdmin, connectionStatus, guardVars, moduleVars, notify >>

\* The callback registered with onRemoteCategoriesChange: a change event of one
\* of the three tables has arrived; loadData(), setCategories(latest).
onRemoteCategoriesChange(outcome) ==
    /\ ~loading
    /\ notify
    /\ notify' = FALSE
    /\ LoadAndSave(session, outcome)
    /\ UNCHANGED << session, remoteVars, loading, isAuthenticated, isAdmin, adminChecks, connectionStatus, guardVars, moduleVars >>

\* The callback, at most budget.loads times in a run.
RemoteChange(outcome) ==
    /\ budget.loads > 0
    /\ onRemoteCategoriesChange(outcome)
    /\ budget' = [budget EXCEPT !.loads = @ - 1, !.failures = @ - SpendFailure(outcome)]

\* The callback, as often as change events arrive.
SubscribedChange(outcome) ==
    /\ onRemoteCategoriesChange(outcome)
    /\ budget' = [budget EXCEPT !.failures = @ - SpendFailure(outcome)]

\* The sign-in form succeeds: the auth listener fires (setIsAuthenticated(true),
\* getIsAdminUser() started), then loadData() and setCategories(newData).
SignIn(u, outcome) ==
    /\ ~loading
    /\ session = NoSession
    /\ budget.signIns > 0
    /\ session' = u
    /\ isAuthenticated' = TRUE
    /\ adminChecks' = adminChecks \cup { u }
    /\ LoadAndSave(u, outcome)
    /\ budget' = [budget EXCEPT !.signIns = @ - 1, !.failures = @ - SpendFailure(outcome)]
    /\ UNCHANGED << remoteVars, loading, isAdmin, connectionStatus, guardVars, moduleVars, notify >>

\* The Sign Out button: the auth listener fires with no session.
SignOut ==
    /\ isAuthenticated
    /\ session # NoSession
    /\ session' = NoSession
    /\ isAuthenticated' = FALSE
    /\ isAdmin' = FALSE
    /\ event' = Ev("signOut", session, << >>, "")
    /\ UNCHANGED << remoteVars, localSlot, categories, loading, adminChecks, connectionStatus, guardVars, moduleVars, schedVars, notify, budget >>

\* getIsAdminUser().then(setIsAdmin) of the auth listener settles.
AdminCheckSettles(u) ==
    /\ u \in adminChecks
    /\ adminChecks' = adminChecks \ { u }
    /\ isAdmin' = getIsAdminUser(u, TRUE)
    /\ event' = Ev("adminCheck", u, << >>, "")
    /\ UNCHANGED << session, remoteVars, localSlot, categories, loading, isAuthenticated, connectionStatus, guardVars, moduleVars, schedVars, notify, budget >>

\* An edit in the editor: setCategories(next), after which the save effect runs
\* saveData(categories).
Edit(next, what) ==
    /\ ~loading
    /\ ~effectPending
    /\ budget.edits > 0
    /\ budget' = [budget EXCEPT !.edits = @ - 1]
    /\ categories' = next
    /\ effectAfterSetCategories(session, next)
    /\ event' = Ev("edit", session, next, what)
    /\ UNCHANGED << session, remoteVars, loading, isAuthenticated, isAdmin, adminChecks, connectionStatus, guardVars, moduleVars, notify >>

\* Catalog controls are enabled for an authenticated admin, progress controls
\* for any authenticated user.
CanEditCatalog == isAuthenticated /\ isAdmin
CanEditProgress == isAuthenticated

\* The beforeunload listener with an ordinary, unforced saveData call.
handleBeforeUnloadUnforced ==
    /\ budget.unloads > 0
    /\ budget' = [budget EXCEPT !.unloads = @ - 1]
    /\ Len(categories) > 0
    /\ saveData(session, categories, FALSE)
    /\ event' = Ev("beforeunload", session, categories, "")
    /\ UNCHANGED << session, remoteVars, appVars, notify >>

\* The beforeunload listener (the App variant that registers one): a forced
\* save of the tree in memory, if it has a category.
handleBeforeUnload ==
    /\ budget.unloads > 0
    /\ budget' = [budget EXCEPT !.unloads = @ - 1]
    /\ Len(categories) > 0
    /\ saveData(session, categories, TRUE)
    /\ event' = Ev("beforeunload", session, categories, "")
    /\ UNCHANGED << session, remoteVars, appVars, notify >>

\* prev.map(cat => cat.id === cid ? { ...cat, problems } : cat)
WithProblems(cats, cid, problems) ==
    [i \in DOMAIN cats |->
        IF cats[i].id = cid THEN [cats[i] EXCEPT !.problems = problems] ELSE cats[i]]

ProblemsIn(cats, cid) == (CHOOSE c \in Range(cats) : c.id = cid).problems

\* generateId: an id that is not in the tree.
createCategory(id) ==
    /\ CanEditCatalog
    /\ id \in GenCatIds \ CatIdsOf(categories)
    /\ Edit(Append(categories, Category(id, << >>)), "createCategory")

addProblem(cid, pid) ==
    /\ CanEditCatalog
    /\ cid \in CatIdsOf(categories)
    /\ pid \in GenProbIds \ ProbIdsOf(categories)
    /\ Edit(WithProblems(categories, cid,
                         Append(ProblemsIn(categories, cid), Problem(pid, FALSE, NoNote))),
            "addProblem")

deleteProblem(cid, pid) ==
    LET Keep(p) == p.id # pid IN
    /\ CanEditCatalog
    /\ \E i \in DOMAIN categories :
          categories[i].id = cid /\ pid \in { p.id : p \in Range(categories[i].problems) }
    /\ Edit(WithProblems(categories, cid, SelectSeq(ProblemsIn(categories, cid), Keep)),
            "deleteProblem")

deleteCategory(cid) ==
    LET Keep(c) == c.id # cid IN
    /\ CanEditCatalog
    /\ cid \in CatIdsOf(categories)
    /\ Edit(SelectSeq(categories, Keep), "deleteCategory")

\* createCategory and addProblem of the guarded variant: setIsSaving(true), and
\* in the setCategories updater a forced saveData(newCategories, true) with the
\* same handlers as the save effect's.
ForcedEdit(next, what) ==
    /\ appVariant = "guarded"
    /\ ~loading
    /\ ~effectPending
    /\ budget.edits > 0
    /\ budget' = [budget EXCEPT !.edits = @ - 1]
    /\ categories' = next
    /\ isSaving' = TRUE
    /\ saveData(session, next, TRUE)
    /\ event' = Ev("edit", session, next, what)
    /\ UNCHANGED << session, remoteVars, loading, isAuthenticated, isAdmin, adminChecks,
                    connectionStatus, appVariant, moduleVars, lastSavedState, notify >>

createCategoryForced(id) ==
    /\ CanEditCatalog
    /\ id \in GenCatIds \ CatIdsOf(categories)
    /\ ForcedEdit(Append(categories, Category(id, << >>)), "createCategory")

addProblemForced(cid, pid) ==
    /\ CanEditCatalog
    /\ cid \in CatIdsOf(categories)
    /\ pid \in GenProbIds \ ProbIdsOf(categories)
    /\ ForcedEdit(WithProblems(categories, cid,
                               Append(ProblemsIn(categories, cid), Problem(pid, FALSE, NoNote))),
                  "addProblem")

\* The save effect of the guarded variant, run after a render in which one of
\* categories, loading, isSaving, lastSavedState has changed: with loading and
\* isSaving false and a hash of categories other than lastSavedState it sets
\* isSaving and calls saveData(categories). The promise of a debounced call is
\* resolved when the call returns, so its handlers run before anything else.
SaveEffect ==
    /\ effectPending
    /\ saveData(session, categories, FALSE)
    /\ IF Debounced(FALSE, now, lastSaveTime)
       THEN /\ isSaving' = FALSE
            /\ lastSavedState' = currentStateHash(categories)
       ELSE /\ isSaving' = TRUE
            /\ UNCHANGED lastSavedState
    /\ event' = Ev("saveEffect", session, categories, "")
    /\ UNCHANGED << session, remoteVars, appState, connectionStatus, appVariant, moduleVars, notify, budget >>

\* handleDrop: the dragged category is spliced out and inserted at the target index.
handleDrop(from, to) ==
    /\ CanEditCatalog
    /\ from \in DOMAIN categories /\ to \in DOMAIN categories /\ from # to
    /\ Edit(InsertAt(RemoveAt(categories, from), to, categories[from]), "handleDrop")

\* updateProblem: the problem pid of category cid is replaced by updated[p].
updateProblem(cid, pid, updated) ==
    LET ps == ProblemsIn(categories, cid) IN
    WithProblems(categories, cid,
                 [i \in DOMAIN ps |-> IF ps[i].id = pid THEN updated[ps[i]] ELSE ps[i]])

AllProblems == Range(flattenProblems(categories))

onToggleComplete(cid, pid) ==
    LET Toggle == [p \in AllProblems |-> [p EXCEPT !.completed = ~p.completed]] IN
    /\ CanEditProgress
    /\ \E i \in DOMAIN categories :
          categories[i].id = cid /\ pid \in { p.id : p \in Range(categories[i].problems) }
    /\ Edit(updateProblem(cid, pid, Toggle), "toggle")

onEditNote(cid, pid, text) ==
    LET SetNote == [p \in AllProblems |-> [p EXCEPT !.note = text]] IN
    /\ CanEditProgress
    /\ \E i \in DOMAIN categories :
          /\ categories[i].id = cid
          /\ \E p \in Range(categories[i].problems) : p.id = pid /\ p.note # text
    /\ Edit(updateProblem(cid, pid, SetNote), "note")


\* ---------------------------------------------------------------- specification
\* Catalogs the admin may have saved before the page is opened.
SeedCatalogs ==
    { << >>,
      << Category("c1", << Problem("q1", TRUE, "n") >>) >> }

AdminSeedCatalogs ==
    SeedCatalogs \cup
        { << Category("c1", << Problem("q1", TRUE, "n") >>), Category("c2", << >>) >> }

SharedSeedCatalogs ==
    { << >>,
      << Category("c1", << Problem("q1", TRUE, "n") >>), Category("c2", << >>) >> }

Budget(edits, failures, signIns, loads, unloads, cap) ==
    [edits |-> edits, failures |-> failures, signIns |-> signIns, loads |-> loads,
     unloads |-> unloads, execs |-> cap]

\* The process before the storage module is evaluated, and after its first
\* evaluation: client 1 has been made and stored in the global slot.
ModuleNotEvaluated ==
    /\ globalClient = NoClient /\ supabase = NoClient
    /\ evaluations = 0 /\ clientsCreated = 0

ModuleEvaluated ==
    /\ globalClient = 1 /\ supabase = 1
    /\ evaluations = 1 /\ clientsCreated = 1

InitApp(variant, seeds, sessions, slots, b) ==
    /\ session \in sessions
    /\ \E seed \in seeds :
          /\ categoriesTbl = Range(categoriesPayload(seed, Admin))
          /\ problemsTbl = Range(problemsPayload(seed, Admin))
    /\ progressTbl = {}
    /\ localSlot \in slots
    /\ categories = << >>
    /\ loading = TRUE
    /\ isAuthenticated = FALSE
    /\ isAdmin = FALSE
    /\ adminChecks = {}
    /\ connectionStatus = "connected"
    /\ appVariant = variant
    /\ isSaving = FALSE
    /\ lastSavedState = NoHash
    /\ saveTimeout = NoTimer
    /\ lastSaveTime = 0
    /\ retryTimers = << >>
    /\ execs = << >>
    /\ notify = FALSE
    /\ budget = b
    /\ event = Ev("init", NoSession, << >>, "")

InitVariant(variant, seeds, sessions, slots, b) ==
    InitApp(variant, seeds, sessions, slots, b) /\ ModuleEvaluated

\* The plain App of src/src/App.tsx.
InitWithSlot(seeds, sessions, slots, b) == InitVariant("plain", seeds, sessions, slots, b)

\* A device whose local storage has never been written.
InitWith(seeds, sessions, b) == InitWithSlot(seeds, sessions, { NoSlot }, b)

\* The steps of saveDataToSupabase: common, admin branch, sub-user branch, failures.
ExecSessionNext == \E i \in DOMAIN execs, adminOk \in BOOLEAN : ExecGetSession(i, adminOk)

ExecAdminNext ==
    \E i \in DOMAIN execs :
        \/ ExecSelectExisting(i)
        \/ ExecUpsertCategories(i)
        \/ ExecUpsertProblems(i)
        \/ ExecDeleteProblems(i)
        \/ ExecDeleteCategories(i)

ExecSubUserNext == \E i \in DOMAIN execs : ExecUpsertProgress(i)

ExecFailNext == \E i \in DOMAIN execs, kind \in ErrorKinds : ExecFail(i, kind)

ExecSessionFailNext == \E i \in DOMAIN execs, kind \in ErrorKinds : ExecSessionFail(i, kind)

DebounceNext ==
    \/ FireSaveTimeout
    \/ \E d \in TickSteps : Tick(d)

RetryNext == \E k \in DOMAIN retryTimers : FireRetry(k)

CatalogEditNext ==
    \/ \E id \in GenCatIds : createCategory(id)
    \/ \E cid \in CatIds, pid \in GenProbIds : addProblem(cid, pid)
    \/ \E cid \in CatIds, pid \in ProbIds : deleteProblem(cid, pid)
    \/ \E cid \in CatIds : deleteCategory(cid)
    \/ \E from, to \in 1..3 : handleDrop(from, to)

ProgressEditNext ==
    \/ \E cid \in CatIds, pid \in ProbIds : onToggleComplete(cid, pid)
    \/ \E cid \in CatIds, pid \in ProbIds, text \in NoteTexts : onEditNote(cid, pid, text)

MountNext ==
    \/ \E outcome \in LoadOutcomes : Mount(outcome)
    \/ \E u \in Users : AdminCheckSettles(u)

RemoteChangeNext == \E outcome \in LoadOutcomes : RemoteChange(outcome)

SessionNext ==
    \/ \E u \in Users, outcome \in LoadOutcomes : SignIn(u, outcome)
    \/ SignOut

\* One device shared by the admin and the sub-users.
Init == InitWith(SharedSeedCatalogs, { NoSession, Admin, "u1" },
                 Budget(MaxEdits, MaxFailures, MaxSignIns, 0, 0, MaxExecs))

Next ==
    \/ ExecSessionNext \/ ExecAdminNext \/ ExecSubUserNext
    \/ DebounceNext
    \/ CatalogEditNext \/ ProgressEditNext
    \/ MountNext \/ SessionNext

Spec == Init /\ [][Next]_vars

\* The admin's device: the admin's session is persisted and nobody else signs in.
InitAdmin == InitWith(AdminSeedCatalogs, { Admin },
                      Budget(AdminEdits, AdminFailures, 0, 0, 0, AdminExecs))

NextAdmin ==
    \/ ExecSessionNext \/ ExecAdminNext \/ ExecFailNext
    \/ DebounceNext \/ RetryNext
    \/ CatalogEditNext \/ ProgressEditNext
    \/ MountNext

SpecAdmin == InitAdmin /\ [][NextAdmin]_vars

\* A sub-user's device: the sub-user's session is persisted, the catalog exists.
InitSubUser == InitWith(SeedCatalogs \ { << >> }, { "u1" },
                        Budget(SubEdits, SubFailures, 0, SubLoads, 0, SubExecs))

NextSubUser ==
    \/ ExecSessionNext \/ ExecSubUserNext \/ ExecFailNext
    \/ DebounceNext \/ RetryNext
    \/ ProgressEditNext
    \/ MountNext \/ RemoteChangeNext

SpecSubUser == InitSubUser /\ [][NextSubUser]_vars

\* A sub-user's device whose App registers the beforeunload listener.
InitUnload == InitWith(SeedCatalogs \ { << >> }, { "u1" },
                       Budget(UnloadEdits, 0, 0, 0, MaxUnloads, UnloadExecs))

NextUnload ==
    \/ ExecSessionNext \/ ExecSubUserNext
    \/ DebounceNext
    \/ ProgressEditNext
    \/ MountNext
    \/ handleBeforeUnload

SpecUnload == InitUnload /\ [][NextUnload]_vars

\* The retry chain of one save on a sub-user's device.
InitRetry == InitWith(SeedCatalogs \ { << >> }, { "u1" },
                      Budget(RetryEdits, RetryFailures, 0, 0, 0, RetryExecs))

NextRetry ==
    \/ ExecSessionNext \/ ExecSubUserNext \/ ExecFailNext
    \/ DebounceNext \/ RetryNext
    \/ ProgressEditNext
    \/ MountNext

SpecRetry == InitRetry /\ [][NextRetry]_vars

\* A signed-in user's device with the remote-change subscription active: the
\* user makes at most LiveEdits edits, no call fails, and everything that is
\* started goes on: a pending call of a save resolves, a timer that is due
\* fires, a change event is delivered to the callback.
SubscribedChangeNext == \E outcome \in LoadOutcomes : SubscribedChange(outcome)

InitSubscribed == InitWith(AdminSeedCatalogs \ { << >> }, { Admin, "u1" },
                           Budget(LiveEdits, 0, 0, 0, 0, LiveExecs))

NextSubscribed ==
    \/ ExecSessionNext \/ ExecAdminNext \/ ExecSubUserNext
    \/ DebounceNext
    \/ CatalogEditNext \/ ProgressEditNext
    \/ MountNext \/ SubscribedChangeNext

SpecSubscribed ==
    /\ InitSubscribed /\ [][NextSubscribed]_vars
    /\ WF_vars(ExecSessionNext) /\ WF_vars(ExecAdminNext) /\ WF_vars(ExecSubUserNext)
    /\ WF_vars(DebounceNext) /\ WF_vars(MountNext) /\ WF_vars(SubscribedChangeNext)

\* ---------------------------------------------------------------- the storage module
\* createClient(...) on every evaluation, whatever the global slot holds.
exportedClientAlwaysNew(existingClient, fresh) == fresh

\* export const supabase = existingClient ?? createClient(...)
exportedClient(existingClient, fresh) ==
    IF existingClient # NoClient THEN existingClient ELSE fresh

\* The storage module is evaluated: when the page loads, and again in the same
\* process (hot reload) while no save of the instance it replaces is pending or
\* in flight; the environment
\* variables are set, or the evaluation would throw before the client. The
\* client is taken from the global slot or made and stored there, and the
\* module-level saveTimeout and lastSaveTime start from null and 0.
EvaluateModule ==
    LET fresh == clientsCreated + 1
        exported == exportedClient(globalClient, fresh)
    IN
    /\ evaluations < MaxEvaluations
    /\ execs = << >> /\ saveTimeout = NoTimer /\ retryTimers = << >>
    /\ evaluations' = evaluations + 1
    /\ supabase' = exported
    /\ clientsCreated' = IF exported = fresh THEN fresh ELSE clientsCreated
    /\ globalClient' = IF globalClient = NoClient THEN exported ELSE globalClient
    /\ lastSaveTime' = 0
    /\ event' = Ev("evaluate", session, << >>, "")
    /\ UNCHANGED << session, remoteVars, localSlot, appState, connectionStatus, guardVars,
                    saveTimeout, retryTimers, execs, notify, budget >>

\* A sub-user's device in development, from the start of the process: the
\* storage module is evaluated, the App mounts, and the module is hot-reloaded
\* between the user's actions.
InitReload ==
    /\ InitApp("plain", SeedCatalogs \ { << >> }, { "u1" }, { NoSlot },
               Budget(ReloadEdits, 0, 0, 0, 0, ReloadExecs))
    /\ ModuleNotEvaluated

NextReload ==
    \/ ExecSessionNext \/ ExecSubUserNext
    \/ DebounceNext
    \/ ProgressEditNext
    \/ MountNext
    \/ EvaluateModule

SpecReload == InitReload /\ [][NextReload]_vars

\* A signed-in user's device running the guarded variant of the App. A remote
\* call may fail; everything that is started goes on.
GuardedEditNext ==
    \/ \E id \in GenCatIds : createCategoryForced(id)
    \/ \E cid \in CatIds, pid \in GenProbIds : addProblemForced(cid, pid)
    \/ \E cid \in CatIds, pid \in ProbIds : deleteProblem(cid, pid)
    \/ \E cid \in CatIds : deleteCategory(cid)

InitGuarded == InitVariant("guarded", SeedCatalogs \ { << >> }, { Admin, "u1" }, { NoSlot },
                           Budget(GuardedEdits, GuardedFailures, 0, 0, 0, GuardedExecs))

NextGuarded ==
    \/ ExecSessionNext \/ ExecAdminNext \/ ExecSubUserNext \/ ExecFailNext
    \/ DebounceNext \/ RetryNext
    \/ GuardedEditNext \/ ProgressEditNext
    \/ MountNext
    \/ SaveEffect

SpecGuarded ==
    /\ InitGuarded /\ [][NextGuarded]_vars
    /\ WF_vars(ExecSessionNext) /\ WF_vars(ExecAdminNext) /\ WF_vars(ExecSubUserNext)
    /\ WF_vars(DebounceNext) /\ WF_vars(RetryNext) /\ WF_vars(MountNext)
    /\ WF_vars(SaveEffect)

\* A device whose local storage may be unreadable, or hold the tree cached by
\* an earlier visit; every call of a save may fail, the session lookup included.
CachedTrees == { << Category("c1", << Problem("q1", FALSE, "") >>) >> }

InitFaults ==
    InitWithSlot(SeedCatalogs \ { << >> }, { NoSession, Admin, "u1" },
                 Unreadable \cup { NoSlot } \cup { StoredItem(t) : t \in CachedTrees },
                 Budget(FaultEdits, FaultFailures, 0, 0, FaultUnloads, FaultExecs))

NextFaults ==
    \/ ExecSessionNext \/ ExecAdminNext \/ ExecSubUserNext
    \/ ExecFailNext \/ ExecSessionFailNext
    \/ DebounceNext \/ RetryNext
    \/ ProgressEditNext
    \/ MountNext
    \/ handleBeforeUnload

SpecFaults == InitFaults /\ [][NextFaults]_vars

\* A deployment that predates the admin allow-list: a user outside app_admins
\* still owns the catalog rows saved under the owner-only policies.
LegacyOwner == "u2"

PolicySeeds ==
    { [admin |-> << Category("c1", << Problem("q1", TRUE, "n") >>) >>,
       legacy |-> << Category("c2", << Problem("q2", FALSE, "") >>) >>],
      [admin |-> << Category("c1", << Problem("q1", TRUE, "n") >>), Category("c2", << >>) >>,
       legacy |-> << >>] }

\* Progress rows a sub-user may have saved before the page is opened.
PolicyProgressSeeds ==
    { {}, { [user_id |-> "u1", problem_id |-> "q1", completed |-> TRUE, note |-> "n"] } }

InitPolicies ==
    /\ session \in { Admin, "u1", LegacyOwner }
    /\ \E seed \in PolicySeeds :
          /\ categoriesTbl = Range(categoriesPayload(seed.admin, Admin))
                                \cup Range(categoriesPayload(seed.legacy, LegacyOwner))
          /\ problemsTbl = Range(problemsPayload(seed.admin, Admin))
                              \cup Range(problemsPayload(seed.legacy, LegacyOwner))
    /\ progressTbl \in PolicyProgressSeeds
    /\ localSlot = NoSlot
    /\ categories = << >>
    /\ loading = TRUE
    /\ isAuthenticated = FALSE
    /\ isAdmin = FALSE
    /\ adminChecks = {}
    /\ connectionStatus = "connected"
    /\ appVariant = "plain"
    /\ isSaving = FALSE
    /\ lastSavedState = NoHash
    /\ ModuleEvaluated
    /\ saveTimeout = NoTimer
    /\ lastSaveTime = 0
    /\ retryTimers = << >>
    /\ execs = << >>
    /\ notify = FALSE
    /\ budget = Budget(PolicyEdits, 0, 0, 0, 0, PolicyExecs)
    /\ event = Ev("init", NoSession, << >>, "")

NextPolicies ==
    \/ ExecSessionNext \/ ExecAdminNext \/ ExecSubUserNext
    \/ DebounceNext
    \/ CatalogEditNext \/ ProgressEditNext
    \/ MountNext

SpecPolicies == InitPolicies /\ [][NextPolicies]_vars

\* ---------------------------------------------------------------- properties
\* The step just taken is execution i of saveDataToSupabase returning normally
\* from the remote call `op`.
Completes(i, op) ==
    /\ i \in DOMAIN execs
    /\ execs[i].pc = op
    /\ execs' = RemoveAt(execs, i)
    /\ event'.op = op /\ event'.note = "done"

\* Remote call `op` of execution i has just returned without an error.
Returns(i, op) ==
    /\ i \in DOMAIN execs
    /\ execs[i].pc = op
    /\ event'.op = op /\ event'.note \in { "", "done" }
    /\ \/ execs' = RemoveAt(execs, i)
       \/ /\ DOMAIN execs' = DOMAIN execs
          /\ execs'[i].pc # op
          /\ \A j \in DOMAIN execs : j # i => execs'[j] = execs[j]

AdminCalls == { "selExisting", "upCats", "upProbs", "delProbs", "delCats" }

OwnedCategories(u) == { c \in categoriesTbl : c.user_id = u }
OwnedProblems(u) == { q \in problemsTbl : q.user_id = u }

\* The rows user u owns in the catalog tables are exactly the rows a save of cats writes.
RemoteHolds(cats, u) ==
    /\ OwnedCategories(u) = Range(categoriesPayload(cats, u))
    /\ OwnedProblems(u) = Range(problemsPayload(cats, u))

ProgressRowsOf(u, pid) == { g \in progressTbl : g.user_id = u /\ g.problem_id = pid }

\* C1: what a sub-user's remote load shows for a problem is (false, "") when the
\* user has no progress row for it and the row's completed and note otherwise;
\* and once a sub-user's save of a tree has completed, a reload shows for every
\* problem of that tree the completed and note that were saved.
C1_MergeFollowsOverlay ==
    (event.op = "load" /\ event.note = "sub") =>
        \A p \in Range(flattenProblems(categories)) :
            IF ProgressRowsOf(session, p.id) = {}
            THEN p.completed = FALSE /\ p.note = ""
            ELSE \E g \in ProgressRowsOf(session, p.id) :
                    p.completed = g.completed /\ p.note = g.note

C1_ReloadShowsSaved ==
    \A i \in DOMAIN execs, u \in Users :
        (Completes(i, "upProgress") /\ u = execs[i].uid) =>
            \A t \in LoadSubUserTrees(u)' :
                \A p \in Range(flattenProblems(execs[i].cats)) :
                    \E q \in Range(flattenProblems(t)) :
                        q.id = p.id /\ q.completed = p.completed /\ q.note = p.note

C1_SubUserLoadMerge == [](C1_MergeFollowsOverlay) /\ [][C1_ReloadShowsSaved]_vars

\* A sub-user's remote load that shows a problem completed from the user's own row.
C1_Witness ==
    /\ event.op = "load" /\ event.note = "sub"
    /\ session \notin app_admins
    /\ \E p \in Range(flattenProblems(categories)) :
          /\ p.completed
          /\ \E g \in ProgressRowsOf(session, p.id) : g.completed

\* C2: when an admin save of a catalog completes, the ids of the categories and
\* of the problems the admin owns remotely are exactly the ids of that catalog.
C2_IdsExactAtCompletion ==
    \A i \in DOMAIN execs, u \in Users :
        /\ u = execs[i].uid
        /\ \E op \in { "upProbs", "delProbs", "delCats" } : Completes(i, op)
        => /\ { c.id : c \in OwnedCategories(u) }' = CatIdsOf(execs[i].cats)
           /\ { q.id : q \in OwnedProblems(u) }' = ProbIdsOf(execs[i].cats)

C2_DeletionsExact == [][C2_IdsExactAtCompletion]_vars

\* C3 as amended: an admin save of a catalog the remote store already holds
\* changes no remote row, finds nothing to delete and issues no delete: it
\* ends when its problems upsert returns.
C3_SecondSaveStep ==
    \A i \in DOMAIN execs, u \in Users :
        /\ u = execs[i].uid
        /\ RemoteHolds(execs[i].cats, u)
        /\ \E op \in AdminCalls : Returns(i, op)
        => /\ UNCHANGED remoteVars
           /\ Returns(i, "selExisting") =>
                 categoriesToDelete(execs'[i]) = {} /\ problemsToDelete(execs'[i]) = {}
           /\ (Returns(i, "upProbs") /\ categoriesToDelete(execs[i]) = {}
                  /\ problemsToDelete(execs[i]) = {}) => Completes(i, "upProbs")

C3_SecondSaveChangesNothing == [][C3_SecondSaveStep]_vars

\* An admin save of what the remote store already holds has just completed.
C3_Witness ==
    /\ event.op = "upProbs" /\ event.note = "done"
    /\ session \in app_admins
    /\ problemsTbl # {}
    /\ RemoteHolds(categories, session)

\* C3 as stated: moreover the second save issues no upsert.
C3_SecondSaveNoUpsert ==
    \A i \in DOMAIN execs, u \in Users :
        (u = execs[i].uid /\ RemoteHolds(execs[i].cats, u)) =>
            ~ Returns(i, "upCats") /\ ~ Returns(i, "upProbs")

C3_Idempotent == [][C3_SecondSaveStep /\ C3_SecondSaveNoUpsert]_vars

\* The step just taken is a saveData(categories) call of the App that took the
\* debounce branch.
DebouncedCall ==
    /\ event'.op \in { "edit", "load" }
    /\ Debounced(FALSE, now, lastSaveTime)

\* C4 as amended: a non-forced saveData call inside the minimum save interval
\* that arrives while the previous call's debounce timer is pending starts no
\* remote write and replaces that timer by one carrying its own categories;
\* when the timer fires it starts exactly one write, carrying the categories
\* of the last saveData call.
C4_CoalesceStep ==
    /\ (DebouncedCall /\ saveTimeout # NoTimer) =>
          /\ execs' = execs
          /\ Len(saveTimeout') = 1
          /\ saveTimeout'[1].cats = categories'
          /\ saveTimeout'[1].cats = localSlot'[1]
    /\ event'.op = "fireDebounce" =>
          /\ saveTimeout # NoTimer /\ saveTimeout' = NoTimer
          /\ execs' = Append(execs, NewExec(localSlot[1], 0, "saveTimeout", saveTimeout[1].issuer))

C5_ForcedCallStep ==
    event'.op = "beforeunload" =>
        /\ execs' = Append(execs, NewExec(categories, 0, "saveData", session'))
        /\ saveTimeout' = NoTimer
        /\ localSlot' = StoredItem(categories)

C5_ImmediateBypassesDebounce == [][C5_ForcedCallStep]_vars

\* A forced call made within the minimum save interval of the last write,
\* while that write is still in flight.
C5_Witness ==
    /\ event.op = "beforeunload"
    /\ lastSaveTime # 0 /\ now - lastSaveTime < MIN_SAVE_INTERVAL_MS
    /\ Len(execs) = 2
    /\ execs[2].cats = categories /\ execs[2].pc = "getSession"
    /\ saveTimeout = NoTimer

\* Execution i has just failed in remote call `op` with an error of class `kind`.
Fails(i, kind) ==
    /\ i \in DOMAIN execs
    /\ execs[i].pc \in RemoteCalls
    /\ event'.op = execs[i].pc /\ event'.note = kind
    /\ execs' = RemoveAt(execs, i)

\* C6: a save that fails with a resource-exhaustion error is retried with the
\* same categories after BASE_DELAY * 2^retryCount ms, which grows from one
\* attempt to the next; no attempt has a retryCount above MAX_RETRIES, the
\* attempt with retryCount MAX_RETRIES schedules nothing more and ends the
\* chain, and a retry timer starts exactly the attempt it was set for.
C6_RetryStep ==
    /\ \A i \in DOMAIN execs :
          Fails(i, "resource") =>
              IF execs[i].retryCount < MAX_RETRIES
              THEN /\ retryTimers' = Append(retryTimers,
                          [cats |-> execs[i].cats, issuer |-> execs[i].issuer,
                           retryCount |-> execs[i].retryCount + 1,
                           due |-> now + BASE_DELAY * (2 ^ execs[i].retryCount)])
                   /\ execs[i].retryCount > 0 =>
                          BASE_DELAY * (2 ^ execs[i].retryCount)
                              > BASE_DELAY * (2 ^ (execs[i].retryCount - 1))
              ELSE retryTimers' = retryTimers
    /\ event'.op = "fireRetry" =>
          \E k \in DOMAIN retryTimers :
              /\ retryTimers[k].due <= now
              /\ retryTimers' = RemoveAt(retryTimers, k)
              /\ execs' = Append(execs,
                      NewExec(retryTimers[k].cats, retryTimers[k].retryCount, "retry", retryTimers[k].issuer))

C6_AttemptsBounded ==
    /\ \A i \in DOMAIN execs : execs[i].retryCount <= MAX_RETRIES
    /\ \A k \in DOMAIN retryTimers : retryTimers[k].retryCount \in 1..MAX_RETRIES

C6_RetryBackoff == [](C6_AttemptsBounded) /\ [][C6_RetryStep]_vars

\* The last attempt of a chain has failed with a resource error as well: the
\* chain has ended with nothing scheduled.
C6_Witness ==
    /\ event.note = "resource"
    /\ budget.failures = RetryFailures - (MAX_RETRIES + 1)
    /\ retryTimers = << >>
    /\ execs = << >>
    /\ lastSaveTime = 0

\* The step just taken is a loadData() of the App that fell back to local storage.
FallbackLoad == event'.op = "load" /\ event'.note \in { "local", "sample" }

\* Every saveData call writes the categories it is given to the local slot.
SaveWritesLocalCache ==
    event'.op \in { "load", "edit", "beforeunload" } => localSlot' = << categories' >>

\* C7 as amended: with the remote unavailable, loadData returns the tree most
\* recently written to the local slot when that tree has a category, and the
\* bundled sample catalog when the slot is empty or holds the empty tree;
\* saveData(S) writes S to the slot whatever happens remotely.
C7_OfflineStep ==
    /\ FallbackLoad =>
          categories' = IF localSlot = NoSlot \/ localSlot[1] = << >>
                        THEN SampleCatalog
                        ELSE localSlot[1]
    /\ SaveWritesLocalCache

C7_OfflineStepAsStated ==
    /\ (FallbackLoad /\ localSlot # NoSlot) => categories' = localSlot[1]
    /\ SaveWritesLocalCache

C8_SubUserBranchOnly ==
    \A i \in DOMAIN execs :
        (execs[i].uid # NoSession /\ execs[i].uid \notin app_admins) =>
            execs[i].pc = "upProgress"

C8_SubUserStep ==
    (session \notin app_admins /\ session' = session) =>
        /\ categoriesTbl' = categoriesTbl
        /\ problemsTbl' = problemsTbl
        /\ \A g \in progressTbl' \ progressTbl : g.user_id = session

C8_SubUserNeverWritesCatalog == [](C8_SubUserBranchOnly) /\ [][C8_SubUserStep]_vars

\* A sub-user's save has completed and left the user's own progress row.
C8_Witness ==
    /\ event.op = "upProgress" /\ event.note = "done"
    /\ session \in Users \ app_admins
    /\ \E g \in progressTbl : g.user_id = session /\ ~ g.completed
    /\ \E q \in problemsTbl : q.user_id \in app_admins /\ q.completed

\* What user u's overlay, or the default, gives for problem p.
FromOwnOverlay(u, p) ==
    IF ProgressRowsOf(u, p.id) = {}
    THEN p.completed = FALSE /\ p.note = ""
    ELSE \E g \in ProgressRowsOf(u, p.id) :
            p.completed = g.completed /\ p.note = NoteOrEmpty(g.note)

\* C9: what a load shows a sub-user for a problem comes from the sub-user's
\* own overlay row, and is (false, "") without one. (Stated for runs without
\* any edit, where nothing the user has not yet saved can be in the view.)
C9_SubUserViewFromOwnOverlay ==
    (/\ event.op = "load"
     /\ session \in Users \ app_admins
     /\ budget.edits = MaxEdits)
    => \A p \in Range(flattenProblems(categories)) : FromOwnOverlay(session, p)

\* C10: a load that takes the admin branch shows, for each problem, the
\* completed and note of the admin's own problems row, whatever overlay rows
\* exist; and a sub-user's progress upsert changes nothing of what the admin
\* branch returns.
C10_AdminLoadFromProblemRows ==
    (event.op = "load" /\ event.note = "admin") =>
        \A p \in Range(flattenProblems(categories)) :
            \E q \in OwnedProblems(session) :
                q.id = p.id /\ q.completed = p.completed /\ q.note = p.note

C10_SubUserUpsertStep ==
    \A i \in DOMAIN execs :
        (Returns(i, "upProgress") /\ execs[i].uid \notin app_admins) =>
            \A a \in app_admins : LoadAdminTrees(a)' = LoadAdminTrees(a)

C11_NoRowLostStep ==
    budget.edits = AdminEdits =>
        /\ { c.id : c \in categoriesTbl } \subseteq { c.id : c \in categoriesTbl' }
        /\ { q.id : q \in problemsTbl } \subseteq { q.id : q \in problemsTbl' }

C11_DeletedOnlyByAdminDelete == [][C11_NoRowLostStep]_vars

\* The trees of the writes under way: executions in flight, the debounce timer
\* and the retry timers.
PendingWrites ==
    { execs[i].cats : i \in DOMAIN execs }
        \cup { saveTimeout[k].cats : k \in DOMAIN saveTimeout }
        \cup { retryTimers[k].cats : k \in DOMAIN retryTimers }

\* A remote load by user u can return the tree t.
Durable(t, u) ==
    t \in (IF u \in app_admins THEN LoadAdminTrees(u) ELSE LoadSubUserTrees(u))

\* C12: an edit passed to saveData under a session is not discarded by a
\* loadData() that returns the remote tree: after such a load the edited tree
\* is still in memory, or is carried by a write under way, or is what the
\* remote store returns.
C12_LoadKeepsEditStep ==
    (/\ event.op = "edit"
     /\ session # NoSession
     /\ event'.op = "load" /\ event'.note \in { "admin", "sub" })
    => \A t \in { categories } :
          \/ categories' = t
          \/ t \in PendingWrites'
          \/ Durable(t, session)'

C12_NoEditDiscarded == [][C12_LoadKeepsEditStep]_vars

\* The awaits of the admin branch that lie after its first remote call and not
\* after its last.
MidCalls == { "upCats", "upProbs", "delProbs", "delCats" }

\* C13: while one saveDataToSupabase execution is between its first and its
\* last remote call, no remote call of another execution returns.
C13_NoOverlapStep ==
    \A i, j \in DOMAIN execs :
        (i # j /\ execs[i].pc \in MidCalls) =>
            ~ \E op \in RemoteCalls : Returns(j, op)

C13_OneExecutionAtATime == [][C13_NoOverlapStep]_vars

\* C14: the snapshot of an earlier save call never overwrites the remote effect
\* of a later one: when a remote call returns to an execution whose tree is not
\* the one of the most recent saveData call (the tree in the local slot), and
\* the remote store holds what the most recent call saved, it still does afterwards.
C14_NoStaleOverwriteStep ==
    \A i \in DOMAIN execs, u \in Users :
        (/\ u = execs[i].uid
         /\ \E op \in RemoteCalls : Returns(i, op)
         /\ localSlot # NoSlot
         /\ execs[i].cats # localSlot[1]
         /\ Durable(localSlot[1], u))
        => Durable(localSlot[1], u)'

C14_SupersededNotRaced == [][C14_NoStaleOverwriteStep]_vars

\* The step just taken is a loadData() of the App that returned the remote tree.
RemoteLoad == event'.op = "load" /\ event'.note \in { "admin", "sub" }

\* What loadData() returns to user u when the row fetches fail and the slot is `slot`.
OfflineTrees(u, slot) == { r.tree : r \in loadData(u, slot, FALSE, TRUE) }

\* C15 as amended: after a loadData() that succeeded remotely the local slot,
\* when it can be written, holds exactly the tree that load returned, and a
\* following loadData() with the remote unavailable returns that tree when it
\* has a category, and the bundled sample catalog when it is empty.
C15_RemoteLoadStep ==
    (RemoteLoad /\ localSlot # Unavailable) =>
        /\ localSlot' = << categories' >>
        /\ OfflineTrees(session, localSlot)' =
              { IF categories' = << >> THEN SampleCatalog ELSE categories' }

C15_RemoteLoadStepAsStated ==
    (RemoteLoad /\ localSlot # Unavailable) =>
        /\ localSlot' = << categories' >>
        /\ OfflineTrees(session, localSlot)' = { categories' }

RemoteTrees(u) == LoadAdminTrees(u) \cup LoadSubUserTrees(u)
CachedTree(slot) == IF slot \in Unreadable \cup { NoSlot } THEN { } ELSE { slot[1] }

\* The results of loadData() for the session and the slot as they are, under
\* every outcome of the row fetches and of the allow-list lookup.
LoadResults ==
    UNION { loadData(session, localSlot, fetchOk, adminOk) :
                fetchOk \in BOOLEAN, adminOk \in BOOLEAN }

ExecEnds(i) ==
    /\ i \in DOMAIN execs
    /\ execs' = RemoveAt(execs, i)
    /\ event'.op = execs[i].pc

\* The step just taken is a saveData call of the App.
SaveCall == event'.op \in { "load", "edit", "beforeunload" }

\* C17: saveData never rejects. A call either returns once it has set the
\* debounce timer, or awaits the execution of saveDataToSupabase it started;
\* an execution, whoever started it, settles as resolved, whether it reached
\* the end of its try block or went through the catch block; and a failing
\* local storage write does not keep the call from going on.
C17_SaveStep ==
    /\ \A i \in DOMAIN execs : ExecEnds(i) => event'.settled = "resolved"
    /\ SaveCall =>
          \/ execs' = execs /\ saveTimeout' # NoTimer
          \/ /\ saveTimeout' = NoTimer
             /\ execs' = Append(execs, NewExec(categories', 0, "saveData", session'))

C17_SaveAlwaysResolves == [](event.settled # "rejected") /\ [][C17_SaveStep]_vars

\* On a device whose local storage cannot be written, an execution has failed
\* with an error that is not retried, and has resolved.
C17_Witness ==
    /\ event.note = "other"
    /\ event.settled = "resolved"
    /\ localSlot = Unavailable
    /\ execs = << >>
    /\ lastSaveTime = 0

\* C18 as amended: every saveData call, in the step of the call itself and so
\* before any remote call of the execution it starts, writes the categories it
\* is given to the local slot, unless local storage cannot be written, in
\* which case the slot is left as it was and the call goes on; with writable
\* local storage the slot then holds exactly the snapshot of the most recent call.
C18_SaveCallStep ==
    SaveCall =>
        /\ localSlot' = IF localSlot = Unavailable THEN Unavailable ELSE << categories' >>
        /\ UNCHANGED remoteVars
        /\ \A i \in DOMAIN execs' \ DOMAIN execs : execs'[i].pc = "getSession"
        /\ execs' # execs \/ saveTimeout' # NoTimer

C18_SlotHoldsLastSnapshot ==
    (~ loading /\ localSlot # Unavailable) => localSlot = << categories >>

C18_LocalWriteFirst == [](C18_SlotHoldsLastSnapshot) /\ [][C18_SaveCallStep]_vars

\* A debounced call has stored an edit locally; no remote write carries it yet.
C18_Witness ==
    /\ event.op = "edit"
    /\ localSlot = << categories >>
    /\ saveTimeout # NoTimer
    /\ \A i \in DOMAIN execs : execs[i].cats # categories

\* C18 as stated: every saveData call leaves its categories in the local slot.
C18_SaveCallStepAsStated == SaveCall => localSlot' = << categories' >>

C18_LocalWriteUnconditional == [][C18_SaveCallStepAsStated]_vars

\* C19: without a session a save has no remote effect. No step taken while
\* there is no session changes a remote row; an execution whose session lookup
\* finds no session ends there, having read and written no row, and leaves
\* lastSaveTime and the timers as they were; the saveData call itself writes
\* the local slot.
C19_NoSessionStep ==
    /\ (session = NoSession /\ session' = NoSession) => UNCHANGED remoteVars
    /\ \A i \in DOMAIN execs :
          (session = NoSession /\ Returns(i, "getSession")) =>
              /\ Completes(i, "getSession")
              /\ execs[i].existingCategories = { } /\ execs[i].existingProblems = { }
              /\ UNCHANGED << remoteVars, lastSaveTime, saveTimeout, retryTimers, localSlot >>
    /\ (SaveCall /\ session' = NoSession) => localSlot' = << categories' >>

C19_NoSessionNoRemoteEffect == [][C19_NoSessionStep]_vars

\* A save made without a session has ended at its session lookup: the local
\* slot holds the tree, the admin's remote catalog is as it was.
C19_Witness ==
    /\ event.op = "getSession" /\ event.note = "done"
    /\ session = NoSession
    /\ localSlot = << categories >>
    /\ lastSaveTime = 0
    /\ execs = << >>
    /\ categoriesTbl # { }
    /\ progressTbl = { }

\* The ids of the categories of a tree, in the order of the tree.
CategoryOrder(t) == [k \in DOMAIN t |-> t[k].id]

\* C20: when an admin's save of a tree completes, the admin's loadData() and
\* every sub-user's loadData() return the categories in the order of that tree
\* (stated for completions at which the remote categories are those of the tree).
C20_OrderAtCompletion ==
    \A i \in DOMAIN execs, u \in Users :
        (/\ u = execs[i].uid
         /\ \E op \in { "upProbs", "delProbs", "delCats" } : Completes(i, op)
         /\ { c.id : c \in categoriesTbl' } = CatIdsOf(execs[i].cats))
        => \A v \in Users :
              \A t \in (IF v = u THEN LoadAdminTrees(v) ELSE LoadSubUserTrees(v))' :
                  CategoryOrder(t) = CategoryOrder(execs[i].cats)

C20_OrderRoundTrips == [][C20_OrderAtCompletion]_vars

SameId(r, tbl) == { x \in tbl : x.id = r.id }

\* C21: under the row-level policies a categories or problems row is inserted,
\* updated or deleted only by the user whose id is the row's user_id (a problems
\* row also goes with its category, deleted by the category's owner); a remote
\* load shows a user only rows the user owns or, the user being signed in, rows
\* whose owner is in app_admins; and a user_problem_progress row is inserted or
\* updated only by the user whose id is its user_id.
C21_CatalogWriteStep ==
    /\ \A r \in (categoriesTbl' \ categoriesTbl) \cup (problemsTbl' \ problemsTbl) :
          r.user_id = session
    /\ \A r \in categoriesTbl \ categoriesTbl' : r.user_id = session
    /\ \A r \in problemsTbl \ problemsTbl' :
          \/ r.user_id = session
          \/ \E c \in categoriesTbl \ categoriesTbl' :
                c.id = r.category_id /\ c.user_id = session /\ SameId(c, categoriesTbl') = {}

C21_ProgressWriteStep ==
    \A g \in progressTbl' \ progressTbl : g.user_id = session

C21_ReadsAllowed ==
    (event.op = "load" /\ event.note \in { "admin", "sub" }) =>
        /\ session # NoSession
        /\ \A i \in DOMAIN categories :
              \E r \in categoriesTbl :
                  /\ r.id = categories[i].id
                  /\ r.user_id = session \/ r.user_id \in app_admins
        /\ \A p \in Range(flattenProblems(categories)) :
              \E r \in problemsTbl :
                  /\ r.id = p.id
                  /\ r.user_id = session \/ r.user_id \in app_admins

C21_RowPolicies ==
    [](C21_ReadsAllowed) /\ [][C21_CatalogWriteStep /\ C21_ProgressWriteStep]_vars

\* The admin's upsert of an id whose row the legacy owner holds has been rejected,
\* and the row is still the legacy owner's.
C21_Witness ==
    /\ session = Admin
    /\ event.op \in { "upCats", "upProbs" } /\ event.note = "rejected"
    /\ \E r \in categoriesTbl \cup problemsTbl : r.user_id = LegacyOwner

\* C22: lastSaveTime is the time of the last completed remote write: it is set
\* to the present only in the step in which a remote write of an execution
\* completes (so that the interval test of saveData measures the time since
\* that completion).
C22_StampStep ==
    (lastSaveTime' = now /\ lastSaveTime # now) =>
        (event'.op \in RemoteCalls /\ event'.note = "done")

C22_StampedAtCompletion == [][C22_StampStep]_vars

\* C23: at most one debounce timer is pending at any moment; a saveData call
\* leaves no timer of an earlier call pending (after it, a pending timer carries
\* the categories of this call), and the timer that fires starts a write of the
\* categories it carries, so that a cancelled snapshot is not written by its
\* timer; an execution that has started leaves the executions in flight only by
\* a step of its own, and a saveData call leaves every one of them as it was.
C23_OneTimerPending == Len(saveTimeout) <= 1

C23_SaveCallStep ==
    SaveCall =>
        /\ \A k \in DOMAIN saveTimeout' : saveTimeout'[k].cats = categories'
        /\ SubSeq(execs', 1, Len(execs)) = execs

C23_TimerStep ==
    /\ event'.op = "fireDebounce" =>
          /\ saveTimeout # NoTimer /\ saveTimeout' = NoTimer
          /\ execs' = Append(execs, NewExec(saveTimeout[1].cats, 0, "saveTimeout", saveTimeout[1].issuer))
    /\ (\E k \in DOMAIN execs' : k > Len(execs) /\ execs'[k].caller = "saveTimeout")
          => event'.op = "fireDebounce"
    /\ (\E i \in DOMAIN execs : execs' = RemoveAt(execs, i))
          => event'.op \in RemoteCalls \cup { "getSession" }

C23_SingleTimerCancels ==
    [](C23_OneTimerPending) /\ [][C23_SaveCallStep /\ C23_TimerStep]_vars

\* A load has replaced the timer of an edit: the edit was made, nothing failed,
\* no write is in flight, the edit is not in the remote rows, and the pending
\* timer carries the loaded tree.
C23_Witness ==
    /\ event.op = "load" /\ event.note = "sub"
    /\ budget.edits < SubEdits /\ budget.failures = SubFailures /\ budget.loads < SubLoads
    /\ execs = << >>
    /\ saveTimeout # NoTimer /\ saveTimeout[1].cats = categories
    /\ \A g \in progressTbl : g.completed = FALSE /\ g.note = ""

\* The step just taken ended an execution in the catch block without a retry timer.
FailsForGood ==
    /\ event'.settled = "resolved" /\ event'.note \in ErrorKinds \cup { "rejected" }
    /\ retryTimers' = retryTimers

\* C24: a write that fails for good (retries exhausted, or an error that is not
\* retried) leaves lastSaveTime cleared; it stays cleared until a write attempt
\* finds its session; and a saveData call without forceImmediate that finds it
\* cleared sets no debounce timer and starts saveDataToSupabase in the same step.
C24_FailureClearsStep == FailsForGood => lastSaveTime' = 0

C24_StaysClearedStep ==
    (lastSaveTime = 0 /\ lastSaveTime' # 0) => (event'.op = "getSession" /\ event'.note = "")

C24_NextCallStep ==
    (lastSaveTime = 0 /\ event'.op \in { "load", "edit" }) =>
        /\ saveTimeout' = NoTimer
        /\ execs' = Append(execs, NewExec(categories', 0, "saveData", session'))

NotRetried == event'.note \in { "other", "rejected" }

\* C25 as amended: only resource-exhaustion errors are retried. A write that
\* fails with another kind of error sets no retry timer, its execution is over
\* without a further remote call and without a change of a remote row, and the
\* local slot holds the categories of the most recent saveData call: the failed
\* snapshot, unless a later call has replaced it there.
C25_OtherErrorStep ==
    NotRetried =>
        /\ retryTimers' = retryTimers
        /\ \E i \in DOMAIN execs : execs[i].pc = event'.op /\ execs' = RemoveAt(execs, i)
        /\ categoriesTbl' = categoriesTbl /\ problemsTbl' = problemsTbl /\ progressTbl' = progressTbl
        /\ localSlot' = localSlot /\ localSlot = << categories >>

C25_RetryTimerStep ==
    Len(retryTimers') > Len(retryTimers) => event'.note = "resource"

C25_OtherErrorStepAsStated ==
    \A i \in DOMAIN execs :
        (NotRetried /\ execs[i].pc = event'.op /\ execs' = RemoveAt(execs, i))
            => localSlot' = << execs[i].cats >>

FlushExec(i) ==
    /\ budget.unloads < FaultUnloads /\ budget.edits = FaultEdits
    /\ execs[i].caller = "saveData" /\ execs[i].retryCount = 0
    /\ Len(execs) = 1

\* C26 as amended: the beforeunload listener runs only with a tree that has a
\* category, and then starts saveDataToSupabase for the tree in memory in the
\* same step, whatever the time since the last write and with no debounce
\* timer left; it does not wait for that execution. The execution is an
\* ordinary first attempt: when it fails with a resource-exhaustion error while
\* the page is still there, the catch block sets the first retry timer for it.
C26_UnloadStep ==
    event'.op = "beforeunload" =>
        /\ Len(categories) > 0 /\ categories' = categories
        /\ saveTimeout' = NoTimer
        /\ Len(execs') = Len(execs) + 1
        /\ execs'[Len(execs')] = NewExec(categories, 0, "saveData", session')

C26_FlushFailsStep ==
    \A i \in DOMAIN execs :
        (FlushExec(i) /\ Fails(i, "resource")) =>
            retryTimers' = Append(retryTimers,
                                  [cats |-> execs[i].cats, issuer |-> execs[i].issuer, retryCount |-> 1,
                                   due |-> now + RetryDelay(0)])

C26_UnloadFlushes == [][C26_UnloadStep /\ C26_FlushFailsStep]_vars

\* The flush has failed with a resource-exhaustion error, the only failure so
\* far, and its retry timer is pending.
C26_Witness ==
    /\ event.note = "resource"
    /\ budget.unloads < FaultUnloads /\ budget.edits = FaultEdits
    /\ budget.failures = FaultFailures - 1
    /\ execs = << >>
    /\ Len(retryTimers) = 1 /\ retryTimers[1].cats = categories

\* C26 as stated: a failure of the flush schedules no retry.
C26_FlushFailsStepAsStated ==
    \A i \in DOMAIN execs :
        (FlushExec(i) /\ \E kind \in ErrorKinds : Fails(i, kind)) => retryTimers' = retryTimers

C26_FlushHasNoRetry == [][C26_UnloadStep /\ C26_FlushFailsStepAsStated]_vars

FallbackPaths == { "local", "sample", "empty" }

\* C27 as amended: a loadData() without a session, or one of whose fetches
\* fails, returns what the local fallback gives: the tree in the local slot when
\* it has a category, the sample catalog when the slot is empty or holds the
\* empty tree, and the empty tree only when the slot cannot be read. A load that
\* returns by a remote branch returns a whole tree of that branch.
C27_FallbackStep ==
    event'.op = "load" =>
        /\ (session' = NoSession) => event'.note \in FallbackPaths
        /\ (budget'.failures < budget.failures) =>
              \/ event'.note \in FallbackPaths
              \/ session' \in app_admins /\ event'.note = "sub"
        /\ event'.note \in FallbackPaths =>
              categories' = IF localSlot \in Unreadable THEN << >>
                            ELSE IF localSlot # NoSlot /\ Len(localSlot[1]) > 0
                                 THEN localSlot[1]
                                 ELSE SampleCatalog
        /\ event'.note = "admin" => categories' \in LoadAdminTrees(session')
        /\ event'.note = "sub" => categories' \in LoadSubUserTrees(session')

C27_FallbackNeverEmptyStep ==
    (event'.op = "load" /\ event'.note \in FallbackPaths) => Len(categories') > 0

C28_FailsClosed ==
    /\ \A ok \in BOOLEAN : ~getIsAdminUser(NoSession, ok)
    /\ \A u \in Users : ~getIsAdminUser(u, FALSE)

C28_LookupFailedStep ==
    /\ (event'.op = "load" /\ budget'.failures < budget.failures) =>
          /\ event'.note # "admin"
          /\ event'.note = "sub" => categories' \in LoadSubUserTrees(session')
    /\ \A i \in DOMAIN execs :
          (event'.op = "getSession" /\ execs[i].pc = "getSession"
           /\ budget'.failures < budget.failures /\ DOMAIN execs' = DOMAIN execs
           /\ execs'[i] # execs[i])
              => execs'[i].pc = "upProgress"
    /\ \A i \in DOMAIN execs :
          (execs[i].pc = "upProgress" /\ event'.op = "upProgress")
              => /\ categoriesTbl' = categoriesTbl /\ problemsTbl' = problemsTbl
                 /\ Len(execs') < Len(execs)

C28_AdminCheckFailsClosed == [](C28_FailsClosed) /\ [][C28_LookupFailedStep]_vars

\* The admin's execution stands at the progress upsert: its lookup has failed.
C28_Witness ==
    /\ session \in app_admins
    /\ event.op = "getSession"
    /\ \E i \in DOMAIN execs : execs[i].pc = "upProgress" /\ execs[i].uid = session

\* Execution i has moved from one await to the next in the step just taken.
Moves(i, from, to) ==
    /\ DOMAIN execs' = DOMAIN execs
    /\ execs[i].pc = from /\ execs'[i].pc = to

ParentsOf(rows) == { rows[k].category_id : k \in DOMAIN rows }

\* C29: the remote calls of one admin save follow one another in the order
\* select, category upsert, problem upsert, problem delete, category delete,
\* each started when the one before has returned without an error: when the
\* category upsert has returned, every category the problem payload refers to
\* is in the table; the category delete is not made before the problem delete
\* that is due; and a call that fails ends the execution, which makes no later
\* call and leaves the remote rows as they are.
C29_OrderStep ==
    \A i \in DOMAIN execs :
        /\ (DOMAIN execs' = DOMAIN execs /\ execs'[i].pc # execs[i].pc) =>
              /\ event'.op = execs[i].pc
              /\ \/ Moves(i, "getSession", "selExisting")
                 \/ Moves(i, "getSession", "upProgress")
                 \/ Moves(i, "selExisting", "upCats")
                 \/ Moves(i, "upCats", "upProbs")
                 \/ Moves(i, "upProbs", "delProbs")
                 \/ Moves(i, "upProbs", "delCats") /\ problemsToDelete(execs[i]) = {}
                 \/ Moves(i, "delProbs", "delCats")
        /\ Moves(i, "upCats", "upProbs") =>
              ParentsOf(problemsPayload(execs[i].cats, execs[i].uid))
                  \subseteq { c.id : c \in categoriesTbl' }
        /\ Completes(i, "upProbs") =>
              problemsToDelete(execs[i]) = {} /\ categoriesToDelete(execs[i]) = {}
        /\ Completes(i, "delProbs") => categoriesToDelete(execs[i]) = {}

C29_WriteStep ==
    /\ categoriesTbl' # categoriesTbl =>
          \E i \in DOMAIN execs :
              execs[i].pc \in { "upCats", "delCats" } /\ event'.op = execs[i].pc
    /\ problemsTbl' # problemsTbl =>
          \E i \in DOMAIN execs :
              execs[i].pc \in { "upProbs", "delProbs", "delCats" } /\ event'.op = execs[i].pc

C29_AbortStep ==
    (event'.settled = "resolved" /\ event'.note # "done") =>
        /\ \E i \in DOMAIN execs : execs[i].pc = event'.op /\ execs' = RemoveAt(execs, i)
        /\ categoriesTbl' = categoriesTbl /\ problemsTbl' = problemsTbl /\ progressTbl' = progressTbl

ProgressKeys(tbl) == { ProgressKey(g) : g \in tbl }

\* C30 as amended: a sub-user save upserts one overlay row for every problem
\* of the tree it saves, with the tree's completed and note, whether or not the
\* user ever touched the problem; a pair (user, problem) has at most one row,
\* which later saves update; and an overlay row goes only together with its
\* problem, removed by a delete of the problem's owner.
C30_OneRowPerKey ==
    \A g, h \in progressTbl : ProgressKey(g) = ProgressKey(h) => g = h

C30_SaveStep ==
    \A i \in DOMAIN execs, u \in Users :
        (Completes(i, "upProgress") /\ u = execs[i].uid) =>
            \A p \in Range(flattenProblems(execs[i].cats)) :
                [user_id |-> u, problem_id |-> p.id,
                 completed |-> p.completed, note |-> p.note] \in progressTbl'

C30_NoDeleteStep ==
    \A g \in progressTbl :
        ProgressKey(g) \notin ProgressKeys(progressTbl') =>
            /\ event'.op \in { "delProbs", "delCats" }
            /\ g.problem_id \in { q.id : q \in problemsTbl }
            /\ g.problem_id \notin { q.id : q \in problemsTbl' }

C30_OverlayRowPerProblem ==
    [](C30_OneRowPerKey) /\ [][C30_SaveStep /\ C30_NoDeleteStep]_vars

\* A user who has made no edit has an overlay row after the save of the loaded tree.
C30_Witness ==
    /\ event.op = "upProgress" /\ event.note = "done"
    /\ session = LegacyOwner
    /\ budget.edits = PolicyEdits
    /\ \E g \in progressTbl : g.user_id = session /\ g.completed = FALSE /\ g.note = ""

\* C30 as stated: a save creates no overlay row for a problem the user has not
\* interacted with, so none before the user's first edit.
C30_CreatedByInteractionStep ==
    (budget.edits = PolicyEdits /\ event'.op = "upProgress") =>
        ProgressKeys(progressTbl') \subseteq ProgressKeys(progressTbl)

C30_OverlayRowOnFirstInteraction ==
    [](C30_OneRowPerKey) /\ [][C30_CreatedByInteractionStep /\ C30_NoDeleteStep]_vars

\* The rows of tbl that are gone after the step, by id.
GoneIds(tbl, tblAfter) == { r.id : r \in tbl } \ { r.id : r \in tblAfter }

\* Execution i is the one whose call pc the step settles.
ActsAt(i, pc) ==
    /\ execs[i].pc = pc /\ event'.op = pc
    /\ \/ execs' = RemoveAt(execs, i)
       \/ DOMAIN execs' = DOMAIN execs /\ execs'[i] # execs[i]

\* C31: an admin save deletes no row whose id is in the snapshot it saves: the
\* ids its delete calls remove were fetched as existing and are not in the
\* snapshot; and when a call of the save fails, every category and problem of
\* the snapshot that was fetched as existing is still in the remote tables.
C31_DeleteStep ==
    \A i \in DOMAIN execs :
        (ActsAt(i, "delProbs") \/ ActsAt(i, "delCats")) =>
            /\ GoneIds(categoriesTbl, categoriesTbl') \subseteq execs[i].existingCategories \ CatIdsOf(execs[i].cats)
            /\ GoneIds(problemsTbl, problemsTbl') \cap ProbIdsOf(execs[i].cats) = {}

C31_FailureStep ==
    \A i \in DOMAIN execs :
        (execs[i].pc \in AdminCalls /\ execs[i].pc # "selExisting"
         /\ event'.op = execs[i].pc /\ event'.settled = "resolved" /\ event'.note # "done"
         /\ execs' = RemoveAt(execs, i)) =>
            /\ execs[i].existingCategories \cap CatIdsOf(execs[i].cats)
                   \subseteq { c.id : c \in categoriesTbl' }
            /\ execs[i].existingProblems \cap ProbIdsOf(execs[i].cats)
                   \subseteq { q.id : q \in problemsTbl' }

C31_SnapshotRowsKept == [][C31_DeleteStep /\ C31_FailureStep]_vars

\* The calls of saveDataToSupabase that write to the remote store.
WriteCalls == { "upCats", "upProbs", "delProbs", "delCats", "upProgress" }

\* Execution i changes the remote tables in this step.
WritesRemote(i) ==
    /\ \E pc \in WriteCalls : ActsAt(i, pc)
    /\ remoteVars' # remoteVars

\* C32: a snapshot handed to saveData under a user's session is written to the
\* remote store under that user only: every step of an execution that changes
\* the remote tables is made under the identity that was signed in when the
\* snapshot was handed over, also when a sign-out and a sign-in lie between
\* the saveData call and the write.
C32_IdentityStep ==
    \A i \in DOMAIN execs :
        (WritesRemote(i) /\ execs[i].issuer # NoSession) => execs[i].uid = execs[i].issuer

C32_WrittenUnderIssuer == [][C32_IdentityStep]_vars

\* A loadData() call of the App, or a call of a save that changes a remote table.
LoadOrWriteStep ==
    \/ event'.op = "load"
    \/ \E i \in DOMAIN execs : WritesRemote(i)

\* C33: with the subscription active the system quiesces: from some point on no
\* step is a loadData() call or a remote write; the chain save, change event,
\* loadData, setCategories, save does not go on forever.
C33_Quiesces == <>[][~LoadOrWriteStep]_vars

\* C34: the connectivity indicator never leaves 'connected': in every reachable
\* state connectionStatus = "connected", and no saveDataToSupabase execution,
\* failed or not, settles as rejected, so the rejection handler of the save
\* effect never runs.
C34_NoRejectionStep == event'.settled # "rejected"

C35_ControlsOnlyForAdmin == CanEditCatalog => session \in app_admins

\* The execution started in a saveData call of the App ends in this step.
AwaitedSaveEnds(i) ==
    /\ execs[i].caller = "saveData"
    /\ event'.op = execs[i].pc
    /\ execs' = RemoveAt(execs, i)

\* C36: in the guarded variant no change is permanently skipped: the tree in
\* memory is handed to saveData in the end (saveData stores what it is handed
\* in the local slot), also a tree that was set while a save was in flight;
\* isSaving is false after the step in which a save of the App settles, and
\* does not stay true for ever.
C36_SettleStep == \A i \in DOMAIN execs : AwaitedSaveEnds(i) => ~isSaving'

C36_NoChangeSkipped ==
    /\ [](~loading => <>(localSlot = StoredItem(categories)))
    /\ [](isSaving => <>(~isSaving))
    /\ [][C36_SettleStep]_vars

\* A save of the App has just settled and the tree in memory is no longer the
\* one that save was handed: it was changed while the save was in flight.
C36_Witness ==
    /\ event.settled = "resolved" /\ ~isSaving
    /\ lastSavedState # NoHash /\ lastSavedState # currentStateHash(categories)
    /\ localSlot # StoredItem(categories)

\* C37: the remote client is a process-wide singleton: over any number of
\* evaluations of the storage module createClient is called at most once, the
\* client is in the global slot, every evaluation exports the client of the
\* slot, and the client in the slot is never replaced.
C37_OneClient ==
    /\ clientsCreated <= 1
    /\ supabase = globalClient
    /\ evaluations > 0 => globalClient # NoClient

C37_EvaluationStep ==
    /\ globalClient # NoClient => globalClient' = globalClient
    /\ evaluations' # evaluations => supabase' = globalClient'

C37_ClientIsSingleton == [](C37_OneClient) /\ [][C37_EvaluationStep]_vars

\* The module has been evaluated again, after the App has saved, and exports
\* the one client made by the first evaluation.
C37_Witness ==
    /\ event.op = "evaluate" /\ evaluations = MaxEvaluations
    /\ localSlot # NoSlot
    /\ clientsCreated = 1 /\ supabase = 1 /\ globalClient = 1

====
